---- MODULE Spec2Model ----
(***************************************************************************)
(* A model of the paradedb-django expression compiler                      *)
(* (src/src/paradedb): the Dialect Selector with its memoized version      *)
(* probe, the expression nodes and their as_sql lowering, the combinators  *)
(* that compile their children, and the Lookup Adapter.                    *)
(*                                                                         *)
(* SQL text is a sequence of fragments whose concatenation is the emitted  *)
(* text; a "%s" placeholder is always a fragment of its own, and a call    *)
(* opens with the fragment "<schema>.<function>(" and closes with ")".     *)
(* A bound parameter is a record [t |-> python type, v |-> its text].      *)
(***************************************************************************)
EXTENDS Integers, Sequences, FiniteSets, TLC

VARIABLES
    cfg,        \* paradedb.settings: PARADEDB_USE_LEGACY, PARADEBD_USE_V2, ...
    server,     \* the version the database reports, <<major, minor, patch>>
    cache,      \* functools.cache of get_version: <<>> or <<version string>>
    probes,     \* how many times the probe statement was executed
    pc,         \* per thread: "idle" or "probing" (inside get_version's body)
    pending,    \* per thread: the call that waits for the probe
    heap,       \* the expression objects built so far, by object id
    bags,       \* the LookupParameter objects built so far, by object id
    model_cache,\* ModelResolverFromTable._model_cache: db_table -> model
    last        \* the latest finished call and its outcome

vars == <<cfg, server, cache, probes, pc, pending, heap, bags, model_cache, last>>

----------------------------------------------------------------------------
(* Bounds of the model. *)

NumThreads == 2      \* threads that call the Dialect Selector concurrently
MaxGroup == 1        \* children in one group of a combinator
MaxValues == 4       \* operands in a Proximity list
MaxChars == 3        \* characters in a string element of an array

Threads == 1..NumThreads
\* The thread of the single-threaded runs.
MainThread == CHOOSE t \in Threads : \A u \in Threads : t <= u

----------------------------------------------------------------------------
(* Python strings as sequences of code points, for the version comparison. *)

Dot == <<46>>

RECURSIVE Digits(_)
Digits(n) == IF n < 10 THEN <<48 + n>> ELSE Digits(n \div 10) \o <<48 + (n % 10)>>

\* The text of a version <<major, minor, patch>> as version_info() reports it.
VersionStr(v) == Digits(v[1]) \o Dot \o Digits(v[2]) \o Dot \o Digits(v[3])

\* The literal "0.20" of the comparison.
Threshold == <<48, 46, 50, 48>>

\* Python's str >= str: code point by code point, a proper prefix is smaller.
RECURSIVE PyStrGE(_, _)
PyStrGE(a, b) ==
    IF b = <<>> THEN TRUE
    ELSE IF a = <<>> THEN FALSE
    ELSE IF Head(a) # Head(b) THEN Head(a) > Head(b)
    ELSE PyStrGE(Tail(a), Tail(b))

\* version >= "0.20" as _get_schema evaluates it.
VersionAtLeast(version) == PyStrGE(version, Threshold)

----------------------------------------------------------------------------
(* The Dialect Selector. *)

\* A mutant: the force-current flag tested before the always-legacy set.
get_schema_v2_first(legacy, func, c, version) ==
    IF legacy THEN "paradedb"
    ELSE IF c.PARADEBD_USE_V2 THEN "pdb"
    ELSE IF func # "" /\ func \in c.PARADEDB_USE_LEGACY THEN "paradedb"
    ELSE IF VersionAtLeast(version) THEN "pdb"
    ELSE "paradedb"

\* _get_schema(legacy, func) once get_version() has returned `version`.
get_schema(legacy, func, c, version) ==
    IF legacy THEN "paradedb"
    ELSE IF func # "" /\ func \in c.PARADEDB_USE_LEGACY THEN "paradedb"
    ELSE IF c.PARADEBD_USE_V2 THEN "pdb"
    ELSE IF VersionAtLeast(version) THEN "pdb"
    ELSE "paradedb"

\* Whether _get_schema(legacy, func) reaches its get_version() call.
needs_version(legacy, func, c) ==
    /\ ~ legacy
    /\ ~ (func # "" /\ func \in c.PARADEDB_USE_LEGACY)
    /\ ~ c.PARADEBD_USE_V2

----------------------------------------------------------------------------
(* The models of the example application (Meta.db_table, primary key, and  *)
(* the paradedb_key_field attribute, "" when the model declares none) and  *)
(* what the query resolves an F() path to: <<model, field name, alias>>.   *)

Models ==
    [ Article |-> [db_table |-> "article", pk |-> "id", paradedb_key_field |-> ""],
      User    |-> [db_table |-> "auth_user", pk |-> "id", paradedb_key_field |-> ""] ]

\* getattr(model, "paradedb_key_field", model._meta.pk.name)
model_key_field(model) ==
    IF Models[model].paradedb_key_field # "" THEN Models[model].paradedb_key_field
    ELSE Models[model].pk

\* resolve_f_model_and_field(f_expr, compiler.query) for a query on Article.
resolve_f_model_and_field(path) ==
    CASE path = "user__date_joined" -> <<"User", "date_joined", "auth_user">>
      [] path = "date_range" -> <<"Article", "date_range", "article">>
      [] OTHER -> <<"Article", path, "article">>

(* Field references: a bare string, an F() path, a TableField, or None.    *)
StrRef(s) == [tag |-> "str", name |-> s]
FRef(path) == [tag |-> "F", name |-> path]
NoneRef == [tag |-> "None", name |-> ""]
\* KeyField(table=<str>, primary_key_field=pk)
KeyField(table, pk) == [tag |-> "KeyField", table |-> table, primary_key_field |-> pk]
\* TableField(field, table=<model>): key_field is None
TableField(field, model) ==
    [tag |-> "TableField", name |-> field, model |-> model, table |-> ""]
\* TableField(field, table="<table name>"): key_field is None
TableFieldOn(field, table) ==
    [tag |-> "TableField", name |-> field, model |-> "", table |-> table]

\* KeyField.get_sql, for a table given as a string.
KeyField_get_sql(k) == k.table \o "." \o k.primary_key_field

\* TableField.get_sql, the table given as a model or as a string.
TableField_get_sql(f) ==
    (IF f.model # "" THEN Models[f.model].db_table ELSE f.table) \o "." \o f.name

\* str(x) of a field reference or identity key, as an f-string formats it.
Str(x) ==
    CASE x.tag = "str" -> x.name
      [] x.tag = "KeyField" -> KeyField_get_sql(x)
      [] x.tag = "TableField" -> TableField_get_sql(x)
      [] x.tag = "F" -> "F(" \o x.name \o ")"
      [] OTHER -> "None"

\* Python truthiness of a field reference: None and "" are false.
Truthy(x) == ~ (x.tag = "None" \/ (x.tag = "str" /\ x.name = ""))

\* TableField.get_table_primary_key_field, "" for None (a table given as a
\* string and no key_field).
get_table_primary_key_field(f) == IF f.model # "" THEN model_key_field(f.model) ELSE ""

\* _resolve_and_set_key_field(ref, instance, ..., field_name): the instance
\* with pfield (when setField) and key_field overwritten for an F or a TableField.
resolve_and_set_key_field(ref, n, setField) ==
    IF ref.tag = "F" THEN
        LET r == resolve_f_model_and_field(ref.name)
            k == KeyField(r[3], model_key_field(r[1]))
        IN  IF setField THEN [n EXCEPT !.pfield = StrRef(r[2]), !.key_field = k]
            ELSE [n EXCEPT !.key_field = k]
    ELSE IF ref.tag = "TableField" THEN
        LET k == KeyField(IF ref.model # "" THEN Models[ref.model].db_table ELSE ref.table,
                          IF get_table_primary_key_field(ref) # ""
                          THEN get_table_primary_key_field(ref) ELSE ref.name)
        IN  IF setField THEN [n EXCEPT !.pfield = StrRef(ref.name), !.key_field = k]
            ELSE [n EXCEPT !.key_field = k]
    ELSE n

----------------------------------------------------------------------------
(* SQL fragments and parameters. *)

PH == "%s"
Param(t, v) == [t |-> t, v |-> v]
PStr(v) == Param("str", v)
PInt(v) == Param("int", v)

\* _normalize_bool
normalize_bool(b) == IF b THEN "true" ELSE "false"

RECURSIVE Join(_, _)
\* sep.join(parts), each part a sequence of fragments.
Join(parts, sep) ==
    IF parts = <<>> THEN <<>>
    ELSE IF Len(parts) = 1 THEN parts[1]
    ELSE parts[1] \o <<sep>> \o Join(Tail(parts), sep)

RECURSIVE Text(_)
\* The emitted text: the fragments concatenated.
Text(frags) == IF frags = <<>> THEN "" ELSE Head(frags) \o Text(Tail(frags))

\* The literal the database adapter writes for a bound parameter.
Literal(p) == IF p.t = "str" THEN "'" \o p.v \o "'" ELSE p.v

RECURSIVE compose_sql(_, _)
\* connection.ops.compose_sql(sql, params): each placeholder, in order,
\* replaced by the literal of its parameter.
compose_sql(sql, params) ==
    IF sql = <<>> THEN <<>>
    ELSE IF Head(sql) = PH /\ params # <<>>
         THEN <<Literal(Head(params))>> \o compose_sql(Tail(sql), Tail(params))
    ELSE <<Head(sql)>> \o compose_sql(Tail(sql), params)

\* A mutant: the identity key is written whenever it is given.
make_schema_sql_key_always(func, args, schema, lhs, op, key_field) ==
    LET call == <<schema \o "." \o func \o "(">> \o Join(args, ",") \o <<")">>
    IN  IF key_field # "" THEN <<key_field, " " \o op \o " ">> \o call
        ELSE IF lhs # "" THEN <<lhs, " " \o op \o " ">> \o call
        ELSE call

\* _make_schema_sql; lhs and key_field are "" for None.
make_schema_sql(func, args, schema, lhs, op, key_field) ==
    LET call == <<schema \o "." \o func \o "(">> \o Join(args, ",") \o <<")">>
    IN  IF lhs # "" THEN <<lhs, " " \o op \o " ">> \o call
        ELSE IF key_field # "" THEN <<key_field, " " \o op \o " ">> \o call
        ELSE call

----------------------------------------------------------------------------
(* utils.postgres_array.  A string element is a sequence of characters.    *)

PyS(chars) == [t |-> "str", v |-> chars]
PyI(text) == [t |-> "int", v |-> text]
PyNone == [t |-> "none", v |-> ""]

RECURSIVE escape_chars(_)
\* v.replace("\\", "\\\\").replace("'", "''")
escape_chars(chars) ==
    IF chars = <<>> THEN ""
    ELSE (CASE Head(chars) = "\\" -> "\\\\"
            [] Head(chars) = "'" -> "''"
            [] OTHER -> Head(chars)) \o escape_chars(Tail(chars))

\* A mutant: a string element is quoted as it is.
format_value_unescaped(v) ==
    CASE v.t = "none" -> "NULL"
      [] v.t = "str" -> "'" \o Text(v.v) \o "'"
      [] OTHER -> v.v

\* format_value
format_value(v) ==
    CASE v.t = "none" -> "NULL"
      [] v.t = "str" -> "'" \o escape_chars(v.v) \o "'"
      [] OTHER -> v.v

\* postgres_array: one fragment, the text of the array literal.
postgres_array(items) ==
    "ARRAY[" \o Text(Join([i \in 1..Len(items) |-> <<format_value(items[i])>>], ", ")) \o "]"

----------------------------------------------------------------------------
(* Expression objects.  Every object is a record                            *)
(*   [kind, pfield, key_field, match_op, ignore_lhs, legacy, wrap, a]       *)
(* where a holds the constructor arguments that are particular to the kind. *)
(* The outcome of as_sql is [ok, err, sql, params, needv] with the object   *)
(* (or the heap) as as_sql left it; needv tells that get_version was called.*)
(* The <Kind>_as_sql operators take the object as the first statement of    *)
(* as_sql, _resolve_and_set_key_field (resolve_self below), has left it.    *)

Node(kind, pfield, key_field, match_op, a) ==
    [kind |-> kind, pfield |-> pfield, key_field |-> key_field, match_op |-> match_op,
     ignore_lhs |-> FALSE, legacy |-> FALSE, wrap |-> TRUE, a |-> a]

Ok(sql, params, node, needv) ==
    [ok |-> TRUE, err |-> "", sql |-> sql, params |-> params, node |-> node, needv |-> needv]

Raise(err, node, needv) ==
    [ok |-> FALSE, err |-> err, sql |-> <<>>, params |-> <<>>, node |-> node, needv |-> needv]

\* sql = f"{self.key_field} @@@ {sql}" when self.match_op
with_match_op(n, sql) ==
    IF n.match_op THEN <<Str(n.key_field), " @@@ ">> \o sql ELSE sql

\* A mutant: the field is the left-hand side in the legacy schema too.
lhs_of_in_both_schemas(n, include_field) ==
    IF ~ n.ignore_lhs /\ Truthy(n.pfield) THEN Str(n.pfield) ELSE ""

\* lhs=self.pfield if not self.ignore_lhs and not include_field else None
lhs_of(n, include_field) ==
    IF ~ n.ignore_lhs /\ ~ include_field /\ Truthy(n.pfield) THEN Str(n.pfield) ELSE ""

\* key_field=self.key_field if self.match_op else None
key_of(n) == IF n.match_op THEN Str(n.key_field) ELSE ""

\* A mutant: in the legacy schema the field is written into the call and is
\* no bound parameter.
schema_call_field_inline(n, func, args, params, c, version) ==
    LET schema == get_schema(n.legacy, func, c, version)
        include_field == schema = "paradedb"
    IN  Ok(make_schema_sql(func,
                           IF include_field THEN <<<<Str(n.pfield)>>>> \o args ELSE args,
                           schema, lhs_of(n, include_field), "@@@", key_of(n)),
           params, n, needs_version(n.legacy, func, c))

\* The tail shared by the nodes lowered through _make_schema_sql: the field
\* is the first argument and parameter exactly in the legacy schema.
schema_call(n, func, args, params, c, version) ==
    LET schema == get_schema(n.legacy, func, c, version)
        include_field == schema = "paradedb"
    IN  Ok(make_schema_sql(func,
                           IF include_field THEN <<<<PH>>>> \o args ELSE args,
                           schema, lhs_of(n, include_field), "@@@", key_of(n)),
           IF include_field THEN <<PStr(Str(n.pfield))>> \o params ELSE params,
           n, needs_version(n.legacy, func, c))

All_as_sql(n, c, version) ==
    Ok(with_match_op(n, IF ~ n.legacy THEN <<"pdb.all(", ")">> ELSE <<"paradedb.all(", ")">>),
           <<>>, n, FALSE)

Empty_as_sql(n, c, version) ==
    Ok(with_match_op(n, <<"pdb.empty(", ")">>), <<>>, n, FALSE)

Match_as_sql(n, c, version) ==
    LET params == <<PStr(n.a.value), PStr(normalize_bool(n.a.conjunction_mode)),
                    PStr(normalize_bool(n.a.transposition_cost_one)),
                    PStr(normalize_bool(n.a.prefix)), PInt(n.a.distance)>>
        args == << <<" ", PH>>, <<" conjunction_mode:=", PH>>,
                   <<" transposition_cost_one:=", PH>>, <<" prefix:=", PH>>,
                   <<"distance:=", PH>> >>
    IN  IF n.a.tokenizer.t = "Tokenizer"
        THEN Raise("ValueError", n, needs_version(n.legacy, "match", c))
        ELSE IF n.a.tokenizer.t = "str"
        THEN schema_call(n, "match", args \o << <<"tokenizer:=paradedb.tokenizer(", PH, ")">> >>,
                         params \o <<PStr(n.a.tokenizer.v)>>, c, version)
        ELSE schema_call(n, "match", args, params, c, version)

Exists_as_sql(n, c, version) ==
    IF Truthy(n.pfield)
        THEN Ok(with_match_op(n, <<"paradedb.exists(", PH, ")">>), <<PStr(Str(n.pfield))>>, n, FALSE)
        ELSE Ok(with_match_op(n, <<"pdb.exists(", ")">>), <<>>, n, FALSE)

\* Range._format
Range_format(value) ==
    CASE value.t = "none" -> "NULL"
      [] value.t \in {"datetime", "date", "str"} -> "'" \o value.v \o "'"
      [] OTHER -> value.v

\* Range.make_range
make_range(range_type, start, end, bounds) ==
    range_type \o "(" \o Range_format(start) \o ", " \o Range_format(end)
        \o ", '" \o bounds \o "')"

Range_as_sql(n, c, version) ==
    schema_call(n, "range",
                    << <<"range:= ", make_range(n.a.range_type, n.a.start, n.a.end, n.a.bounds)>> >>,
                    <<>>, c, version)

RangeTerm_as_sql(n, c, version) ==
    LET args == << <<n.a.term_range \o "::" \o n.a.cast>> >>
    IN  schema_call(n, "range_term",
                    IF n.a.relation # "None" THEN args \o << <<"'" \o n.a.relation \o "'">> >> ELSE args,
                    <<>>, c, version)

Regex_as_sql(n, c, version) ==
    schema_call(n, "regex", << <<PH>> >>, <<PStr(n.a.value)>>, c, version)

Term_as_sql(n, c, version) ==
    schema_call(n, "term",
                    IF n.a.enum_cast_field # "None"
                    THEN << <<PH, "::" \o n.a.enum_cast_field>> >> ELSE << <<PH>> >>,
                    <<n.a.value>>, c, version)

FuzzyTerm_as_sql(n, c, version) ==
    schema_call(n, "fuzzy_term",
                    << <<PH>>, <<"transposition_cost_one:=", PH>>, <<"prefix:=", PH>>,
                       <<"distance:=", PH>> >>,
                    <<PStr(n.a.value), PStr(normalize_bool(n.a.transposition_cost_one)),
                      PStr(normalize_bool(n.a.prefix)), PInt(n.a.distance)>>, c, version)

Phrase_as_sql(n, c, version) ==
    schema_call(n, "phrase", << <<postgres_array(n.a.pharses)>>, <<PH>> >>,
                    <<PInt(n.a.slop)>>, c, version)

PhrasePrefix_as_sql(n, c, version) ==
    LET args == << <<postgres_array(n.a.pharses)>> >>
    IN  IF n.a.max_expansion # "0"
        THEN schema_call(n, "phrase_prefix", args \o << <<"max_expansion:=", PH>> >>,
                         <<PInt(n.a.max_expansion)>>, c, version)
        ELSE schema_call(n, "phrase_prefix", args, <<>>, c, version)

\* The optional named arguments of Snippet, in the order as_sql appends them.
SnippetKnobs == <<"limit", "offset", "start_tag", "end_tag", "max_num_chars">>
SnippetKnobSql ==
    [limit |-> ", \"limit\":=", offset |-> ", \"offset\":=", start_tag |-> ", start_tag:=",
     end_tag |-> ", end_tag:=", max_num_chars |-> ", max_num_chars:="]

RECURSIVE knob_sql(_, _, _)
\* The fragments appended for the knobs of `names` that `given` accepts.
knob_sql(names, text, given) ==
    IF names = <<>> THEN <<>>
    ELSE (IF given[Head(names)] THEN <<text[Head(names)], PH>> ELSE <<>>)
         \o knob_sql(Tail(names), text, given)

RECURSIVE knob_params(_, _, _)
knob_params(names, values, given) ==
    IF names = <<>> THEN <<>>
    ELSE (IF given[Head(names)]
          THEN <<Param(values[Head(names)].t, values[Head(names)].v)>> ELSE <<>>)
         \o knob_params(Tail(names), values, given)

Snippet_as_sql(n, c, version) ==
    LET given == [k \in DOMAIN n.a.knobs |-> n.a.knobs[k].t # "none"]
    IN  Ok(with_match_op(n, <<"pdb.snippet(", Str(n.pfield), " ">>
                            \o knob_sql(SnippetKnobs, SnippetKnobSql, given) \o <<")">>),
           knob_params(SnippetKnobs, n.a.knobs, given), n, FALSE)

\* Python truthiness of an optional number: None and 0 are false.
TruthyValue(v) == v.t # "none" /\ v.v # "0" /\ v.v # ""

\* json.dumps of a flat dict given as a sequence of <<key, number text>>.
json_dumps(doc) ==
    "{" \o Text(Join([i \in 1..Len(doc) |-> <<"\"" \o doc[i][1] \o "\": " \o doc[i][2]>>], ", ")) \o "}"

MltKnobs == <<"min_doc_frequency", "max_doc_frequency", "min_term_frequency",
              "max_query_terms", "min_word_length", "max_word_length", "boost_factor">>
MltKnobSql ==
    [min_doc_frequency |-> ", min_doc_frequency :=", max_doc_frequency |-> ", max_doc_frequency :=",
     min_term_frequency |-> ", min_term_frequency :=", max_query_terms |-> ", max_query_terms :=",
     min_word_length |-> ", min_word_length :=", max_word_length |-> ", max_word_length :=",
     boost_factor |-> ", boost_factor :="]

MoreLikeThis_as_sql(n, c, version) ==
    LET by_id == TruthyValue(n.a.document_id)
        by_doc == n.a.document # <<>> /\ ~ by_id
        given == [k \in DOMAIN n.a.knobs |-> TruthyValue(n.a.knobs[k])]
        mode == (IF by_id THEN <<"key_value :=", PH>>
                              \o (IF n.a.fields # <<>>
                                  THEN <<", fields := ", postgres_array(n.a.fields)>> ELSE <<>>)
                 ELSE <<>>)
                \o (IF by_doc THEN <<"document :=", PH>> ELSE <<>>)
        stop == IF n.a.stop_words # <<>>
                THEN <<", stopwords:= ", postgres_array(n.a.stop_words)>> ELSE <<>>
    IN  Ok(with_match_op(n, <<"pdb.more_like_this(">> \o mode
                            \o knob_sql(MltKnobs, MltKnobSql, given) \o stop \o <<")">>),
           (IF by_id THEN <<Param(n.a.document_id.t, n.a.document_id.v)>> ELSE <<>>)
           \o (IF by_doc THEN <<PStr(json_dumps(n.a.document))>> ELSE <<>>)
           \o knob_params(MltKnobs, n.a.knobs, given), n, FALSE)

\* A mutant: Parse asks the Dialect Selector without its legacy flag.
Parse_as_sql_ignores_legacy(n, c, version) ==
    LET schema == get_schema(FALSE, "parse", c, version)
    IN  Ok(with_match_op(n, <<schema \o ".parse(", PH, ", lenient:=", PH,
                              ", conjunction_mode:=", PH, ")">>),
           <<PStr(n.a.query), PStr(normalize_bool(n.a.lenient)),
             PStr(normalize_bool(n.a.conjunction_mode))>>,
           n, needs_version(FALSE, "parse", c))

Parse_as_sql(n, c, version) ==
    LET schema == get_schema(n.legacy, "parse", c, version)
    IN  Ok(with_match_op(n, <<schema \o ".parse(", PH, ", lenient:=", PH,
                              ", conjunction_mode:=", PH, ")">>),
           <<PStr(n.a.query), PStr(normalize_bool(n.a.lenient)),
             PStr(normalize_bool(n.a.conjunction_mode))>>,
           n, needs_version(n.legacy, "parse", c))

ParseWithField_as_sql(n, c, version) ==
    Ok(with_match_op(n, <<"paradedb.parse_with_field(", PH, ", ", PH, ", lenient:=", PH,
                              ", conjunction_mode:=", PH, ")">>),
           <<PStr(Str(n.pfield)), PStr(n.a.value), PStr(normalize_bool(n.a.lenient)),
             PStr(normalize_bool(n.a.conjunction_mode))>>, n, FALSE)

ProximityRegex_as_sql(n, c, version) ==
    LET call == <<"pdb.prox_regex(", PH>>
                \o (IF TruthyValue(n.a.max_expansions) THEN <<", ", PH>> ELSE <<>>) \o <<")">>
    IN  Ok(IF n.wrap THEN <<"(">> \o call \o <<")">> ELSE call,
           <<PStr(n.a.regex)>>
           \o (IF TruthyValue(n.a.max_expansions) THEN <<PInt(n.a.max_expansions.v)>> ELSE <<>>),
           n, FALSE)

----------------------------------------------------------------------------
(* Combinators.  The heap maps an object id to the object; a combinator     *)
(* holds the ids of its children, and compiling it leaves the heap as its   *)
(* assignments to the children (and their own as_sql) left it.              *)

OkH(sql, params, h, needv) ==
    [ok |-> TRUE, err |-> "", sql |-> sql, params |-> params, heap |-> h, needv |-> needv]

RaiseH(err, h, needv) ==
    [ok |-> FALSE, err |-> err, sql |-> <<>>, params |-> <<>>, heap |-> h, needv |-> needv]

LeafKinds ==
    {"All", "Empty", "Match", "Exists", "Range", "RangeTerm", "Regex", "Term", "FuzzyTerm",
     "Phrase", "PhrasePrefix", "Snippet", "MoreLikeThis", "Parse", "ParseWithField",
     "ProximityRegex"}

\* The first statement of as_sql: _resolve_and_set_key_field on the key
\* field (All, Empty) or on the field (the kinds that have one).
resolve_self(n) ==
    CASE n.kind \in {"All", "Empty"} -> resolve_and_set_key_field(n.key_field, n, FALSE)
      [] n.kind \in {"Match", "Exists", "Range", "RangeTerm", "Regex", "Term", "FuzzyTerm",
                     "Phrase", "PhrasePrefix", "Snippet", "ParseWithField"} ->
            resolve_and_set_key_field(n.pfield, n, TRUE)
      [] OTHER -> n

\* _resolve_field_name(compiler, field) with no key_field
resolve_field_name(field) ==
    CASE field.tag = "TableField" -> TableField_get_sql(field)
      [] field.tag = "F" ->
            resolve_f_model_and_field(field.name)[3] \o "." \o resolve_f_model_and_field(field.name)[2]
      [] OTHER -> Str(field)

\* Search.as_sql for a plain value: "<field> <op>  %s"; it never reads
\* ignore_lhs, legacy or key_field.
Search_as_sql(n, c, version) ==
    Ok(<<resolve_field_name(n.pfield), " " \o n.a.op \o " ", " ", PH>>, <<n.a.value>>, n, FALSE)

\* The rest of as_sql, of an object that has no children.
lower(n, c, version) ==
    CASE n.kind = "All" -> All_as_sql(n, c, version)
      [] n.kind = "Empty" -> Empty_as_sql(n, c, version)
      [] n.kind = "Match" -> Match_as_sql(n, c, version)
      [] n.kind = "Exists" -> Exists_as_sql(n, c, version)
      [] n.kind = "Range" -> Range_as_sql(n, c, version)
      [] n.kind = "RangeTerm" -> RangeTerm_as_sql(n, c, version)
      [] n.kind = "Regex" -> Regex_as_sql(n, c, version)
      [] n.kind = "Term" -> Term_as_sql(n, c, version)
      [] n.kind = "FuzzyTerm" -> FuzzyTerm_as_sql(n, c, version)
      [] n.kind = "Phrase" -> Phrase_as_sql(n, c, version)
      [] n.kind = "PhrasePrefix" -> PhrasePrefix_as_sql(n, c, version)
      [] n.kind = "Snippet" -> Snippet_as_sql(n, c, version)
      [] n.kind = "MoreLikeThis" -> MoreLikeThis_as_sql(n, c, version)
      [] n.kind = "Parse" -> Parse_as_sql(n, c, version)
      [] n.kind = "ParseWithField" -> ParseWithField_as_sql(n, c, version)
      [] n.kind = "ProximityRegex" -> ProximityRegex_as_sql(n, c, version)
      [] n.kind = "Search" -> Search_as_sql(n, c, version)

\* as_sql of an object that has no children.
leaf_as_sql(n, c, version) == lower(resolve_self(n), c, version)

Proximity_ops == {"##", "##>"}
DigitChars == {"0", "1", "2", "3", "4", "5", "6", "7", "8", "9"}

\* A mutant: every string passes for a number.
isdigit_any(chars) == TRUE

\* str.isdigit
isdigit(chars) == chars # <<>> /\ \A i \in 1..Len(chars) : chars[i] \in DigitChars

RECURSIVE as_sql(_, _, _, _)
RECURSIVE compile_children(_, _, _, _, _, _)
RECURSIVE Proximity_loop(_, _, _, _, _, _)

\* sqls.append(compose_sql(*q.as_sql(...))) for the child whose as_sql
\* returned r, in front of what the later children gave.
children_cons(r, rest) ==
    [rest EXCEPT !.sqls = <<compose_sql(r.sql, r.params)>> \o @, !.needv = @ \/ r.needv]

\* The loop over the children after the first one's as_sql returned r.
children_rest(r, ids, c, version, set_ignore_lhs, set_legacy) ==
    IF ~ r.ok
    THEN [ok |-> FALSE, err |-> r.err, sqls |-> <<>>, heap |-> r.heap, needv |-> r.needv]
    ELSE children_cons(r, compile_children(r.heap, ids, c, version, set_ignore_lhs, set_legacy))

\* for q in ids: [q.ignore_lhs = True;] [q.legacy = True;]
\*     sqls.append(connection.ops.compose_sql(*q.as_sql(compiler, connection)))
compile_children(h, ids, c, version, set_ignore_lhs, set_legacy) ==
    IF ids = <<>> THEN [ok |-> TRUE, err |-> "", sqls |-> <<>>, heap |-> h, needv |-> FALSE]
    ELSE children_rest(
            as_sql([h EXCEPT ![Head(ids)].ignore_lhs = IF set_ignore_lhs THEN TRUE ELSE @,
                             ![Head(ids)].legacy = IF set_legacy THEN TRUE ELSE @],
                   Head(ids), c, version),
            Tail(ids), c, version, set_ignore_lhs, set_legacy)

\* sql_build.append(sql); params.append(...) in front of the later positions.
Proximity_cons(sql, params, rest) ==
    [rest EXCEPT !.sqls = <<sql>> \o @, !.params = params \o @]

Proximity_raise(err, h) ==
    [ok |-> FALSE, err |-> err, sqls |-> <<>>, params |-> <<>>, heap |-> h]

\* The loop after the as_sql of a ProximityRegex operand returned r.
Proximity_child(r, values, idx, check, c, version) ==
    IF ~ r.ok THEN Proximity_raise(r.err, r.heap)
    ELSE Proximity_cons(compose_sql(r.sql, r.params), <<>>,
                        Proximity_loop(r.heap, values, idx, check, c, version))

\* isinstance(v, (ProximityRegex, ProximityArray))
is_proximity_operand(h, v) == v.t = "node" /\ h[v.id].kind = "ProximityRegex"

\* The loop of Proximity.as_sql from position idx (0-based) on.
Proximity_loop(h, values, idx, check, c, version) ==
    IF values = <<>>
    THEN [ok |-> TRUE, err |-> "", sqls |-> <<>>, params |-> <<>>, heap |-> h]
    ELSE IF idx % 2 = 1
    THEN IF ~ (Head(values).t = "str" /\ Text(Head(values).v) \in Proximity_ops)
         THEN Proximity_raise("ValueError", h)
         ELSE Proximity_cons(<<Text(Head(values).v)>>, <<>>,
                             Proximity_loop(h, Tail(values), idx + 1, check, c, version))
    ELSE IF check = "value"
    THEN IF is_proximity_operand(h, Head(values))
         THEN Proximity_child(as_sql([h EXCEPT ![Head(values).id].wrap = FALSE],
                                     Head(values).id, c, version),
                              Tail(values), idx + 1, "distance", c, version)
         ELSE Proximity_cons(<<PH>>, <<Param(Head(values).t, Text(Head(values).v))>>,
                             Proximity_loop(h, Tail(values), idx + 1, "distance", c, version))
    ELSE IF ~ (Head(values).t = "int" \/ (Head(values).t = "str" /\ isdigit(Head(values).v)))
         THEN Proximity_raise("ValueError", h)
         ELSE Proximity_cons(<<PH>>, <<PInt(Text(Head(values).v))>>,
                             Proximity_loop(h, Tail(values), idx + 1, "value", c, version))

\* "<kw> := ARRAY[<children>]" of Boolean.as_sql
bool_group(kw, sqls) == <<kw \o " := ARRAY[">> \o Join(sqls, ", ") \o <<"]">>

\* A mutant: an omitted group is written as an empty array.
Boolean_emit_all_groups(n, must, must_not, should) ==
    with_match_op(n, <<"paradedb.boolean(">>
        \o Join(<<bool_group("must", must), bool_group("must_not", must_not),
                  bool_group("should", should)>>, ", ")
        \o <<")">>)

\* The tail of Boolean.as_sql: one keyword per group that compiled to something.
Boolean_emit(n, must, must_not, should) ==
    with_match_op(n, <<"paradedb.boolean(">>
        \o Join((IF must # <<>> THEN <<bool_group("must", must)>> ELSE <<>>)
                \o (IF must_not # <<>> THEN <<bool_group("must_not", must_not)>> ELSE <<>>)
                \o (IF should # <<>> THEN <<bool_group("should", should)>> ELSE <<>>), ", ")
        \o <<")">>)

\* Boolean.as_sql once the three groups have compiled to m, mn and sh.
Boolean_should(n, m, mn, sh) ==
    IF ~ sh.ok THEN RaiseH(sh.err, sh.heap, m.needv \/ mn.needv \/ sh.needv)
    ELSE OkH(Boolean_emit(n, m.sqls, mn.sqls, sh.sqls), <<>>, sh.heap,
             m.needv \/ mn.needv \/ sh.needv)

Boolean_must_not(n, m, mn, c, version) ==
    IF ~ mn.ok THEN RaiseH(mn.err, mn.heap, m.needv \/ mn.needv)
    ELSE Boolean_should(n, m, mn, compile_children(mn.heap, n.a.should, c, version, TRUE, TRUE))

Boolean_must(n, m, c, version) ==
    IF ~ m.ok THEN RaiseH(m.err, m.heap, m.needv)
    ELSE Boolean_must_not(n, m, compile_children(m.heap, n.a.must_not, c, version, TRUE, TRUE),
                          c, version)

Boolean_as_sql(h, id, c, version) ==
    Boolean_must(h[id], compile_children(h, h[id].a.must, c, version, TRUE, TRUE), c, version)

\* The tail of a container's as_sql, its children having compiled to r.
TermSet_emit(n, r) ==
    IF ~ r.ok THEN RaiseH(r.err, r.heap, r.needv)
    ELSE OkH(with_match_op(n, <<"paradedb.term_set(", "terms := ARRAY[">>
                              \o Join(r.sqls, ", ") \o <<"]", ")">>),
             <<>>, r.heap, r.needv)

TermSet_as_sql(h, id, c, version) ==
    TermSet_emit(h[id], compile_children(h, h[id].a.terms, c, version, TRUE, TRUE))

ConstScore_emit(n, r) ==
    IF ~ r.ok THEN RaiseH(r.err, r.heap, r.needv)
    ELSE OkH(with_match_op(n, <<"paradedb.const_score(", PH, "::real, ">>
                              \o r.sqls[1] \o <<")">>),
             <<n.a.score>>, r.heap, r.needv)

ConstScore_as_sql(h, id, c, version) ==
    ConstScore_emit(h[id], compile_children(h, <<h[id].a.query>>, c, version, FALSE, TRUE))

Boost_emit(n, r) ==
    IF ~ r.ok THEN RaiseH(r.err, r.heap, r.needv)
    ELSE OkH(with_match_op(n, <<"paradedb.boost(", PH, ", ">> \o r.sqls[1] \o <<")">>),
             <<n.a.factor>>, r.heap, r.needv)

Boost_as_sql(h, id, c, version) ==
    Boost_emit(h[id], compile_children(h, <<h[id].a.query>>, c, version, FALSE, FALSE))

DisjunctionMax_emit(n, r) ==
    IF ~ r.ok THEN RaiseH(r.err, r.heap, r.needv)
    ELSE OkH(with_match_op(n, <<"paradedb.disjunction_max(", "ARRAY[">>
                              \o Join(r.sqls, ", ")
                              \o <<"], tie_breaker:=" \o n.a.tie_breaker.v, ")">>),
             <<>>, r.heap, r.needv)

DisjunctionMax_as_sql(h, id, c, version) ==
    DisjunctionMax_emit(h[id], compile_children(h, h[id].a.disjuncts, c, version, FALSE, FALSE))

Proximity_emit(n, r) ==
    IF ~ r.ok THEN RaiseH(r.err, r.heap, FALSE)
    ELSE OkH((IF Truthy(n.pfield) THEN <<resolve_field_name(n.pfield), " @@@ ">> ELSE <<>>)
             \o <<"(">> \o Join(r.sqls, " ") \o <<")">>,
             r.params, r.heap, FALSE)

Proximity_as_sql(h, id, c, version) ==
    Proximity_emit(h[id], Proximity_loop(h, h[id].a.values, 0, "value", c, version))

\* The outcome of a leaf's as_sql, the object stored back at its id.
leaf_result(h, id, r) ==
    [ok |-> r.ok, err |-> r.err, sql |-> r.sql, params |-> r.params,
     heap |-> [h EXCEPT ![id] = r.node], needv |-> r.needv]

\* expr.as_sql(compiler, connection) of the object with id `id`.
as_sql(h, id, c, version) ==
    CASE h[id].kind = "Boolean" -> Boolean_as_sql(h, id, c, version)
      [] h[id].kind = "TermSet" -> TermSet_as_sql(h, id, c, version)
      [] h[id].kind = "ConstScore" -> ConstScore_as_sql(h, id, c, version)
      [] h[id].kind = "Boost" -> Boost_as_sql(h, id, c, version)
      [] h[id].kind = "DisjunctionMax" -> DisjunctionMax_as_sql(h, id, c, version)
      [] h[id].kind = "Proximity" -> Proximity_as_sql(h, id, c, version)
      [] OTHER -> leaf_result(h, id, leaf_as_sql(h[id], c, version))

----------------------------------------------------------------------------
(* Construction.  A request is the constructor call [kind, pfield,          *)
(* key_field, match_op, legacy, a]; init_error is the exception __init__    *)
(* raises for it, "" when it returns.                                       *)

Match_tokenizers ==
    {"whitespace", "keyword", "ngram", "regex", "icu", "jieba", "chinese_lindera",
     "chinese_compatible", "source_code", "raw"}

RangeType_all == {"int4range", "int8range", "daterange", "tsrange", "tstzrange"}
RangeBound_all == {"[)", "(]", "[]", "()"}
Relation_all == {"Intersects", "Within", "Contains"}
Cast_all ==
    {"tsrange", "int4range", "int8range", "daterange", "\"char\"", "bigint", "date",
     "double precision", "integer", "numeric", "real", "smallint",
     "timestamp with time zone", "timestamp without time zone", "tstzrange", "numrange"}

\* Search.__init__: if op not in ["@@@", "|||", "===", "###", "&&&"]: raise
Search_ops == {"@@@", "|||", "===", "###", "&&&"}
Search_init_error(a) == IF a.op \notin Search_ops THEN "ValueError" ELSE ""

\* Match.__init__: the tokenizer is None, a Tokenizer, or one of the names.
Match_init_error(a) ==
    IF a.tokenizer.t = "str" /\ a.tokenizer.v \notin Match_tokenizers THEN "ValueError" ELSE ""

\* A mutant: the bounds tag is not validated.
Range_init_error_no_bounds(a) ==
    IF a.range_type \notin RangeType_all THEN "ValueError" ELSE ""

\* Range.__init__: _validate_range_type, then _validate_bound.
Range_init_error(a) ==
    IF a.range_type \notin RangeType_all THEN "ValueError"
    ELSE IF a.bounds \notin RangeBound_all THEN "ValueError"
    ELSE ""

RangeTerm_init_error(a) ==
    IF a.relation # "None" /\ a.relation \notin Relation_all THEN "ValueError"
    ELSE IF a.cast \notin Cast_all THEN "ValueError"
    ELSE ""

\* Phrase.__init__ and PhrasePrefix.__init__: assert len(pharses) > 1
Phrase_init_error(a) == IF ~ (Len(a.pharses) > 1) THEN "AssertionError" ELSE ""

DisjunctionMax_init_error(a) == IF a.tie_breaker.t # "int" THEN "AssertionError" ELSE ""

\* A mutant: an empty Boolean is accepted.
Boolean_init_error_accepts_empty(a) == ""

\* Boolean.__init__: if not must and not must_not and not should: raise
Boolean_init_error(a) ==
    IF a.must = <<>> /\ a.must_not = <<>> /\ a.should = <<>> THEN "ValueError" ELSE ""

\* ProximityRegex.__init__: if max_expansions and max_expansions < 0: raise
ProximityRegex_init_error(a) ==
    IF TruthyValue(a.max_expansions) /\ a.max_expansions.neg THEN "ValueError" ELSE ""

\* Proximity.__init__: if len(values) < 3: raise
Proximity_init_error(a) == IF Len(a.values) < 3 THEN "ValueError" ELSE ""

init_error(req) ==
    CASE req.kind = "Match" -> Match_init_error(req.a)
      [] req.kind = "Search" -> Search_init_error(req.a)
      [] req.kind = "Range" -> Range_init_error(req.a)
      [] req.kind = "RangeTerm" -> RangeTerm_init_error(req.a)
      [] req.kind \in {"Phrase", "PhrasePrefix"} -> Phrase_init_error(req.a)
      [] req.kind = "DisjunctionMax" -> DisjunctionMax_init_error(req.a)
      [] req.kind = "Boolean" -> Boolean_init_error(req.a)
      [] req.kind = "ProximityRegex" -> ProximityRegex_init_error(req.a)
      [] req.kind = "Proximity" -> Proximity_init_error(req.a)
      [] OTHER -> ""

\* The object __init__ leaves: its arguments stored, ignore_lhs False (no
\* ignore_lhs keyword is passed), legacy as the legacy keyword, wrap True.
init(req) ==
    [Node(req.kind, req.pfield, req.key_field, req.match_op, req.a) EXCEPT !.legacy = req.legacy]

Req(kind, pfield, key_field, match_op, legacy, a) ==
    [kind |-> kind, pfield |-> pfield, key_field |-> key_field, match_op |-> match_op,
     legacy |-> legacy, a |-> a]

----------------------------------------------------------------------------
(* The constructor calls the model draws from. *)

DefaultKey == StrRef("id")
Fields == {StrRef("title"), FRef("user__date_joined"), TableField("title", "Article")}
NoTokenizer == [t |-> "None", v |-> ""]
NoKnobs(names) == [k \in {names[i] : i \in 1..Len(names)} |-> PyNone]

MatchArgs(tok) ==
    [value |-> "python", distance |-> "0", conjunction_mode |-> FALSE,
     transposition_cost_one |-> TRUE, prefix |-> FALSE, tokenizer |-> tok]

RangeArgs(range_type, start, end, bounds) ==
    [range_type |-> range_type, start |-> start, end |-> end, bounds |-> bounds]

MltArgs(id, doc, fields, knobs) ==
    [document_id |-> id, document |-> doc, fields |-> fields, knobs |-> knobs,
     stop_words |-> <<>>]

AllInputs ==
    {Req("All", NoneRef, k, mo, lg, <<>>) :
        k \in {DefaultKey, FRef("user__date_joined")}, mo \in BOOLEAN, lg \in BOOLEAN}
    \cup {Req("Empty", NoneRef, k, mo, FALSE, <<>>) :
        k \in {DefaultKey, TableField("id", "Article")}, mo \in BOOLEAN}

MatchInputs ==
    {Req("Match", f, DefaultKey, mo, FALSE, MatchArgs(NoTokenizer)) : f \in Fields, mo \in BOOLEAN}
    \cup {Req("Match", StrRef("title"), DefaultKey, FALSE, FALSE, MatchArgs(tok)) :
            tok \in {[t |-> "str", v |-> "whitespace"], [t |-> "str", v |-> "porter"],
                     [t |-> "Tokenizer", v |-> ""]}}

ExistsInputs ==
    {Req("Exists", f, DefaultKey, mo, FALSE, <<>>) :
        f \in {NoneRef, StrRef("title"), FRef("user__date_joined")}, mo \in BOOLEAN}

RangeInputs ==
    {Req("Range", StrRef("rank"), DefaultKey, mo, FALSE,
         RangeArgs("int4range", PyI("1"), end, "()")) :
        mo \in BOOLEAN, end \in {PyNone, PyI("3")}}

RangeTermInputs ==
    {Req("RangeTerm", StrRef("price_range"), DefaultKey, mo, FALSE,
         [term_range |-> "1", cast |-> "integer", relation |-> rel]) :
        mo \in BOOLEAN, rel \in {"None", "Intersects"}}
    \cup {Req("RangeTerm", StrRef("price_range"), DefaultKey, FALSE, FALSE,
              [term_range |-> "1", cast |-> ca, relation |-> rel]) :
            ca \in {"integer", "char"}, rel \in {"None", "Overlaps"}}

TermInputs ==
    {Req("Regex", f, DefaultKey, mo, lg, [value |-> "^well$"]) :
        f \in Fields, mo \in BOOLEAN, lg \in BOOLEAN}
    \cup {Req("Term", f, DefaultKey, mo, FALSE, [value |-> PInt("100"), enum_cast_field |-> e]) :
            f \in Fields, mo \in BOOLEAN, e \in {"None", "mood"}}
    \cup {Req("FuzzyTerm", f, DefaultKey, mo, FALSE,
              [value |-> "well", distance |-> "2", transposition_cost_one |-> TRUE,
               prefix |-> FALSE]) : f \in Fields, mo \in BOOLEAN}

Words == <<PyS(<<"o", "'", "k">>), PyS(<<"f", "o", "x">>)>>

PhraseInputs ==
    {Req("Phrase", StrRef("title"), DefaultKey, mo, FALSE, [pharses |-> ph, slop |-> "3"]) :
        mo \in BOOLEAN, ph \in {Words, <<Words[1]>>}}
    \cup {Req("PhrasePrefix", StrRef("title"), DefaultKey, mo, FALSE,
              [pharses |-> Words, max_expansion |-> mx]) : mo \in BOOLEAN, mx \in {"0", "5"}}

SnippetInputs ==
    {Req("Snippet", f, DefaultKey, mo, FALSE, [knobs |-> kn]) :
        f \in {StrRef("title"), FRef("user__date_joined")}, mo \in BOOLEAN,
        kn \in {NoKnobs(SnippetKnobs),
                [NoKnobs(SnippetKnobs) EXCEPT !.limit = PyI("0"),
                                              !.start_tag = [t |-> "str", v |-> "<b>"]]}}

MoreLikeThisInputs ==
    {Req("MoreLikeThis", NoneRef, DefaultKey, mo, FALSE, MltArgs(id, doc, fl, kn)) :
        mo \in BOOLEAN, id \in {PyNone, PyI("123")},
        doc \in {<<>>, << <<"id", "123">> >>}, fl \in {<<>>, <<PyS(<<"t">>)>>},
        kn \in {[NoKnobs(MltKnobs) EXCEPT !.min_doc_frequency = PyI("2"),
                                          !.max_query_terms = PyI("0")]}}

ParseInputs ==
    {Req("Parse", NoneRef, DefaultKey, mo, lg,
         [query |-> "title:well", lenient |-> TRUE, conjunction_mode |-> FALSE]) :
        mo \in BOOLEAN, lg \in BOOLEAN}
    \cup {Req("ParseWithField", f, DefaultKey, mo, FALSE,
              [value |-> "well", lenient |-> TRUE, conjunction_mode |-> TRUE]) :
            f \in {StrRef("title"), TableField("title", "Article")}, mo \in BOOLEAN}

\* Search(field, "shoes", op=op), not escaped.
SearchInputs ==
    {Req("Search", f, NoneRef, FALSE, FALSE, [value |-> PStr("shoes"), op |-> op]) :
        f \in {StrRef("title"), FRef("user__date_joined")}, op \in {"@@@", "|||", "~~~"}}

\* A field qualified by a table name: Regex(TableField("title", table="article"), ...)
QualifiedInputs ==
    {Req("Regex", TableFieldOn("title", "article"), DefaultKey, mo, FALSE, [value |-> "^well$"]) :
        mo \in BOOLEAN}

\* Operands that hold the text %s: a range term, a phrase and a pattern.
PercentInputs ==
    {Req("RangeTerm", StrRef("price_range"), DefaultKey, FALSE, FALSE,
         [term_range |-> "50%s", cast |-> "integer", relation |-> "None"]),
     Req("Phrase", StrRef("title"), DefaultKey, FALSE, FALSE,
         [pharses |-> <<PyS(<<"5", "0", "%", "s">>)>>, slop |-> "3"]),
     Req("Regex", StrRef("title"), DefaultKey, FALSE, FALSE, [value |-> "50%s"])}

LeafInputs ==
    PercentInputs \cup QualifiedInputs \cup SearchInputs \cup AllInputs \cup MatchInputs \cup ExistsInputs \cup RangeInputs \cup RangeTermInputs
    \cup TermInputs \cup PhraseInputs \cup SnippetInputs \cup MoreLikeThisInputs \cup ParseInputs

\* Every pair of a range type and a bounds tag, supported or not.
AllRangeInputs ==
    {Req("Range", StrRef("rank"), DefaultKey, mo, FALSE, RangeArgs(rt, start, end, bd)) :
        mo \in BOOLEAN,
        rt \in RangeType_all \cup {"numrange", "int4"},
        bd \in RangeBound_all \cup {"[[", ""},
        start \in {PyI("1"), [t |-> "date", v |-> "2024-01-01"]},
        end \in {PyNone, PyI("3")}}

ProximityRegexInputs ==
    {Req("ProximityRegex", NoneRef, NoneRef, FALSE, FALSE,
         [regex |-> "fo.*", max_expansions |-> mx]) :
        mx \in {[t |-> "none", v |-> "", neg |-> FALSE], [t |-> "int", v |-> "5", neg |-> FALSE],
                [t |-> "int", v |-> "-1", neg |-> TRUE]}}

\* The operands a Proximity list is drawn from: a word, the two operators,
\* distances as int and as str, and ProximityRegex objects.
ProximityOperands(ids) ==
    {PyS(<<"a">>), PyS(<<"#", "#">>), PyS(<<"#", "#", ">">>), PyI(<<"1">>), PyS(<<"2">>)}
    \cup {[t |-> "node", v |-> <<>>, id |-> i] : i \in ids}

ProximityInputs(ids) ==
    {Req("Proximity", f, NoneRef, FALSE, FALSE, [values |-> vs]) :
        f \in {NoneRef, StrRef("title")},
        vs \in UNION {[1..k -> ProximityOperands(ids)] : k \in 0..MaxValues}}

\* The sequences of length at most n over the object ids in `ids`.
SeqsUpTo(ids, n) == UNION {[1..k -> ids] : k \in 0..n}

\* The combinators that can be built over the objects with ids in `ids`.
CombinatorInputs(ids) ==
    {Req("Boolean", NoneRef, DefaultKey, mo, FALSE, [must |-> m, must_not |-> mn, should |-> sh]) :
        mo \in BOOLEAN, m \in SeqsUpTo(ids, MaxGroup), mn \in SeqsUpTo(ids, MaxGroup),
        sh \in SeqsUpTo(ids, MaxGroup)}
    \cup {Req("TermSet", NoneRef, DefaultKey, mo, FALSE, [terms |-> ts]) :
            mo \in BOOLEAN, ts \in SeqsUpTo(ids, MaxGroup)}
    \cup {Req("DisjunctionMax", NoneRef, DefaultKey, mo, FALSE,
              [disjuncts |-> ds, tie_breaker |-> tb]) :
            mo \in BOOLEAN, ds \in SeqsUpTo(ids, MaxGroup) \ {<<>>},
            tb \in {PyI("1"), [t |-> "float", v |-> "0.5"]}}
    \cup {Req("ConstScore", NoneRef, DefaultKey, mo, FALSE, [query |-> q, score |-> Param("float", "1.0")]) :
            mo \in BOOLEAN, q \in ids}
    \cup {Req("Boost", NoneRef, DefaultKey, mo, FALSE, [query |-> q, factor |-> Param("float", "1.0")]) :
            mo \in BOOLEAN, q \in ids}

----------------------------------------------------------------------------
(* The Lookup Adapter.  A keyword dictionary is a function from the keys    *)
(* it holds to their values; a LookupParameter is [args, kwargs].           *)

LookupParameter(args, kwargs) == [args |-> args, kwargs |-> kwargs]

\* {}
EmptyDict == [k \in {} |-> FALSE]
\* d.get(k, default)
dict_get(d, k, default) == IF k \in DOMAIN d THEN d[k] ELSE default
\* d after d.pop(k, ...)
dict_pop(d, k) == [j \in DOMAIN d \ {k} |-> d[j]]
\* A mutant: update keeps the value of a key the dict already holds.
dict_update_keeps(d, e) == d @@ e

\* d after d.update(e)
dict_update(d, e) == e @@ d

\* ModelResolverFromTable._model_cache after preload(): db_table -> model.
preload ==
    [tb \in {Models[m].db_table : m \in DOMAIN Models} |->
        CHOOSE m \in DOMAIN Models : Models[m].db_table = tb]

\* compiler.query.alias_map of a query on Article joined to User as U0,
\* and compiler.query.model.
AliasMap == [article |-> "article", U0 |-> "auth_user"]
QueryModel == "Article"

\* What process_lhs returns for a column: "<alias>"."<column>".
lhs_sql(lhs) == "\"" \o lhs.alias \o "\".\"" \o lhs.column \o "\""

\* The class attributes of an ExpressionLookup subclass.
LookupClass(name, expr, with_table, no_field, no_args, extra) ==
    [lookup_name |-> name, expr_class |-> expr, include_column_with_table_name |-> with_table,
     exclude_field_in_expression |-> no_field, exclude_args |-> no_args,
     extra_param_kwargs |-> extra]

AllLookup == LookupClass("all", "All", FALSE, TRUE, TRUE, EmptyDict)
ExistsLookup == LookupClass("pdb_exists", "Exists", FALSE, FALSE, TRUE, EmptyDict)
RegexLookup == LookupClass("pdb_regex", "Regex", FALSE, FALSE, FALSE, EmptyDict)
TermLookup == LookupClass("term", "Term", FALSE, FALSE, FALSE, EmptyDict)

\* SearchLookup and its subclasses MatchV2Lookup, MatchConjunctionLookup,
\* PhraseV2Lookup and TermV2Lookup, which differ in lookup_name and in
\* extra_param_kwargs = {"op": ...}.
SearchLookups ==
    {LookupClass(r[1], "Search", TRUE, FALSE, FALSE, [op |-> r[2]]) :
        r \in {<<"pdb_search", "@@@">>, <<"match_v2", "|||">>, <<"match_v2_conjunction", "&&&">>,
                <<"phrase_v2", "###">>, <<"term_v2", "===">>}}

\* self.expr_class(field, *args, **kwargs): the constructor call the
\* positional and keyword arguments bind to, err "TypeError" when they
\* do not fit the signature.
expr_call(cls, field, args, kw) ==
    LET req(a) == Req(cls.expr_class,
                      IF cls.exclude_field_in_expression THEN NoneRef ELSE StrRef(field),
                      kw["key_field"], dict_get(kw, "match_op", FALSE),
                      dict_get(kw, "legacy", FALSE), a)
        n == IF cls.exclude_args THEN 0 ELSE Len(args)
    IN  CASE cls.expr_class \in {"All", "Exists"} /\ n = 0 -> [err |-> "", req |-> req(<<>>)]
          [] cls.expr_class = "Regex" /\ n = 1 ->
                [err |-> "", req |-> req([value |-> args[1].v])]
          [] cls.expr_class = "Term" /\ n = 1 ->
                [err |-> "", req |-> req([value |-> args[1], enum_cast_field |-> "None"])]
          \* Search(field, value, escaped=False, op="@@@", *args, **kwargs): the
          \* value is positional or a keyword and never both; a third
          \* positional argument is op, which the keywords give as well; a
          \* keyword Search does not pop reaches Expression.__init__.  A
          \* call with an escaped flag is not among the calls made here.
          [] cls.expr_class = "Search" /\ n \in {0, 1} /\ (n = 0 <=> "value" \in DOMAIN kw)
             /\ DOMAIN kw \subseteq {"key_field", "legacy", "op", "value"} ->
                [err |-> "",
                 req |-> req([value |-> IF n = 1 THEN args[1] ELSE kw["value"],
                              op |-> dict_get(kw, "op", "@@@")])]
          [] OTHER -> [err |-> "TypeError", req |-> req(<<>>)]

\* The LookupParameter objects after the right-hand one's kwargs became kw.
keep_kwargs(b, rhs, kw) == IF rhs.t = "bag" THEN [b EXCEPT ![rhs.id].kwargs = kw] ELSE b

Lookup_raise(err, b) ==
    [ok |-> FALSE, err |-> err, sql |-> <<>>, params |-> <<>>, bags |-> b, needv |-> FALSE,
     match_op |-> FALSE, key |-> ""]

\* return expr.as_sql(compiler, connection), which gave r; key is the
\* identity key of expr as the compile left it.
Lookup_return(r, match_op, b) ==
    [ok |-> r.ok, err |-> r.err, sql |-> r.sql, params |-> r.params, bags |-> b,
     needv |-> r.needv, match_op |-> match_op, key |-> Str(r.heap[1].key_field)]

\* expr = self.expr_class(...); expr.match_op = params.kwargs.pop("match_op", True);
\* return expr.as_sql(...): kw is params.kwargs and call the constructor call.
Lookup_construct(call, kw, rhs, b, c, version) ==
    IF call.err # "" THEN Lookup_raise(call.err, keep_kwargs(b, rhs, kw))
    ELSE IF init_error(call.req) # ""
    THEN Lookup_raise(init_error(call.req), keep_kwargs(b, rhs, kw))
    ELSE IF call.req.kind = "Search"
    \* a Search has no match_op attribute: nothing is popped or assigned
    THEN Lookup_return(as_sql(<<init(call.req)>>, 1, c, version), FALSE, keep_kwargs(b, rhs, kw))
    ELSE Lookup_return(
            as_sql(<<[init(call.req) EXCEPT !.match_op = dict_get(kw, "match_op", TRUE)]>>,
                   1, c, version),
            dict_get(kw, "match_op", TRUE),
            keep_kwargs(b, rhs, dict_pop(kw, "match_op")))

\* if "key_field" not in params.kwargs: params.kwargs["key_field"] = KeyField(...)
Lookup_key_field(kw, model, alias) ==
    IF "key_field" \in DOMAIN kw THEN kw
    ELSE dict_update(kw, "key_field" :> KeyField(alias, model_key_field(model)))

\* The parameter bag of the right-hand value: the LookupParameter itself, or
\* a new one made of a list, a dict or a single value.
Lookup_params(rhs, b) ==
    CASE rhs.t = "bag" -> b[rhs.id]
      [] rhs.t = "list" -> LookupParameter(rhs.l, EmptyDict)
      [] rhs.t = "dict" -> LookupParameter(<<>>, rhs.d)
      [] OTHER -> LookupParameter(<<rhs.v>>, EmptyDict)

\* as_sql from `value = ...` on: the owning model, alias and field are known.
\* extra is the class's extra_param_kwargs when as_sql returns or raises:
\* update writes params.kwargs and the constructor gets a copy of that.
Lookup_translate(cls, model, alias, field, params, rhs, b, c, version) ==
    Lookup_construct(
        expr_call(cls, field, params.args,
                  Lookup_key_field(dict_update(params.kwargs, cls.extra_param_kwargs),
                                   model, alias)),
        Lookup_key_field(dict_update(params.kwargs, cls.extra_param_kwargs), model, alias),
        rhs, b, c, version)
    @@ [extra |-> cls.extra_param_kwargs]

\* alias_map[alias].table_name if alias in alias_map else alias
Lookup_table(lhs) == IF lhs.alias \in DOMAIN AliasMap THEN AliasMap[lhs.alias] ELSE lhs.alias

\* A mutant: a table that is not cached resolves to the query's model and
\* is cached as that.
resolve_model_caches_miss(mc, table) ==
    IF table \in DOMAIN mc
    THEN [ok |-> TRUE, err |-> "", model |-> mc[table], cache |-> mc]
    ELSE [ok |-> TRUE, err |-> "", model |-> QueryModel, cache |-> (table :> QueryModel) @@ mc]

\* ModelResolverFromTable.resolve_model on the cache mc: the model returned
\* or the exception raised, and the cache afterwards.
resolve_model(mc, table) ==
    IF table \in DOMAIN mc
    THEN [ok |-> TRUE, err |-> "", model |-> mc[table], cache |-> mc]
    ELSE [ok |-> FALSE, err |-> "ModelNotFoundError", model |-> "", cache |-> mc]

\* A mutant: an unknown table falls back whatever the setting is.
ExpressionLookup_as_sql_lenient(cls, lhs, rhs, b, mc, c, version) ==
    IF resolve_model(mc, Lookup_table(lhs)).ok
    THEN Lookup_translate(cls, resolve_model(mc, Lookup_table(lhs)).model, lhs.alias,
                          IF cls.include_column_with_table_name
                          THEN lhs.alias \o "." \o lhs.column ELSE lhs.column,
                          Lookup_params(rhs, b), rhs, b, c, version)
    ELSE Lookup_translate(cls, QueryModel, Models[QueryModel].db_table, lhs_sql(lhs),
                          Lookup_params(rhs, b), rhs, b, c, version)

\* ExpressionLookup.as_sql for the lookup cls(lhs, rhs), the LookupParameter
\* objects being b and the model cache mc: the outcome and the objects after.
ExpressionLookup_as_sql(cls, lhs, rhs, b, mc, c, version) ==
    IF resolve_model(mc, Lookup_table(lhs)).ok
    THEN Lookup_translate(cls, resolve_model(mc, Lookup_table(lhs)).model, lhs.alias,
                          IF cls.include_column_with_table_name
                          THEN lhs.alias \o "." \o lhs.column ELSE lhs.column,
                          Lookup_params(rhs, b), rhs, b, c, version)
    ELSE IF c.PARADEDB_RAISE_ON_MODEL_NOT_FOUND
    THEN Lookup_raise("ModelNotFoundError", b) @@ [extra |-> cls.extra_param_kwargs]
    ELSE Lookup_translate(cls, QueryModel, Models[QueryModel].db_table, lhs_sql(lhs),
                          Lookup_params(rhs, b), rhs, b, c, version)

\* The lookups the model compiles: class, left-hand column, right-hand value.
Lhs(alias, column) == [alias |-> alias, column |-> column]
LookupClasses == {AllLookup, ExistsLookup, RegexLookup, TermLookup}
LhsInputs == {Lhs("article", "title"), Lhs("U0", "username"), Lhs("T9", "title")}

BagInputs ==
    {LookupParameter(args, kw) :
        args \in {<<PStr("well")>>},
        kw \in {EmptyDict, [match_op |-> FALSE], [match_op |-> TRUE],
                [key_field |-> StrRef("sku")]}}

\* The right-hand values of a search-family lookup: a LookupParameter
\* with the query text and keywords that may name an op, a query text, a
\* list and a dict.
SearchBagInputs ==
    {LookupParameter(args, kw) :
        args \in {<<PStr("shoes")>>},
        kw \in {EmptyDict, [op |-> "|||"], [op |-> "~~~"], [match_op |-> FALSE]}}
    \cup {LookupParameter(<<>>, [value |-> PStr("shoes"), op |-> "==="]),
          LookupParameter(<<PStr("shoes"), PStr("False"), PStr("###")>>, EmptyDict)}

SearchRhsInputs(b) ==
    {[t |-> "bag", id |-> i] : i \in DOMAIN b}
    \cup {[t |-> "scalar", v |-> PStr("shoes")]}
    \cup {[t |-> "list", l |-> <<PStr("shoes")>>]}
    \cup {[t |-> "dict", d |-> [value |-> PStr("shoes"), op |-> "|||"]]}

RhsInputs(b) ==
    {[t |-> "bag", id |-> i] : i \in DOMAIN b}
    \cup {[t |-> "scalar", v |-> PStr("well")]}
    \cup {[t |-> "list", l |-> <<PStr("well")>>]}
    \cup {[t |-> "dict", d |-> [match_op |-> FALSE]]}

----------------------------------------------------------------------------
(* Index definitions (indexes.py).  A Python string is a sequence of       *)
(* fragments in which a quote or a backslash is always a fragment of its   *)
(* own.  A JSON-serialisable value is J("str", fragments), J("bool", b),   *)
(* J("list", values) or J("dict", <<[k |-> fragments, v |-> value], ...>>) *)
(* with the entries in insertion order.                                    *)
J(j, v) == [j |-> j, v |-> v]

RECURSIVE json_escape(_)
\* json.dumps of the inside of a string: '"' and '\' get a backslash.
json_escape(s) ==
    IF s = <<>> THEN <<>>
    ELSE (IF Head(s) \in {"\"", "\\"} THEN <<"\\", Head(s)>> ELSE <<Head(s)>>)
         \o json_escape(Tail(s))

RECURSIVE dumps(_)
RECURSIVE dumps_items(_, _)
\* json.dumps(value), default separators.
dumps(x) ==
    CASE x.j = "str" -> <<"\"">> \o json_escape(x.v) \o <<"\"">>
      [] x.j = "bool" -> IF x.v THEN <<"true">> ELSE <<"false">>
      [] x.j = "null" -> <<"null">>
      [] x.j = "list" -> <<"[">> \o dumps_items(x.v, FALSE) \o <<"]">>
      [] x.j = "dict" -> <<"{">> \o dumps_items(x.v, TRUE) \o <<"}">>

\* The items of a list, or of a dict as "key": value, joined by ", ".
dumps_items(items, keyed) ==
    IF items = <<>> THEN <<>>
    ELSE (IF keyed
          THEN <<"\"">> \o json_escape(Head(items).k) \o <<"\"", ": ">> \o dumps(Head(items).v)
          ELSE dumps(Head(items)))
         \o (IF Len(items) > 1 THEN <<", ">> ELSE <<>>)
         \o dumps_items(Tail(items), keyed)

\* d[k] = v on a dict: an existing key keeps its place and gets the value.
dict_set(d, k, v) ==
    IF \E i \in 1..Len(d) : d[i].k = k
    THEN [i \in 1..Len(d) |-> IF d[i].k = k THEN [k |-> k, v |-> v] ELSE d[i]]
    ELSE Append(d, [k |-> k, v |-> v])

\* The entry key: value when cond holds.
entry_if(cond, k, v) == IF cond THEN <<[k |-> <<k>>, v |-> v]>> ELSE <<>>

\* DefaultTokenizer.json: the type, then default_config(), an option being
\* present when it is not None.
Tokenizer_json(tok) ==
    J("dict", entry_if(TRUE, "type", J("str", <<tok.name>>))
              \o entry_if(tok.lowercase.t # "none", "lowercase", J("bool", tok.lowercase.v))
              \o entry_if(tok.stopwords.t # "none", "stopwords",
                          J("list", [i \in 1..Len(tok.stopwords.v) |->
                                        J("str", tok.stopwords.v[i])])))

\* A mutant: the constructor accepts every record mode and normalizer.
TextFieldIndexConfig_init_error_lenient(record, normalizer) == ""

\* TextFieldIndexConfig.__init__, which JSONFieldIndexConfig.__init__ calls:
\* the error it raises, "" for none.  <<>> stands for None, which is falsy
\* and skips the check.
TextFieldIndexConfig_init_error(record, normalizer) ==
    IF record # <<>> /\ record \notin {<<"position">>, <<"freq">>, <<"basic">>}
    THEN "ValueError"
    ELSE IF normalizer # <<>> /\ normalizer \notin {<<"raw">>, <<"lowercase">>}
         THEN "ValueError"
         ELSE ""

\* TextFieldIndexConfig.json; a record of None is the JSON null.
TextFieldIndexConfig_json(c) ==
    entry_if(TRUE, "fast", J("bool", c.fast))
    \o entry_if(TRUE, "indexed", J("bool", c.indexed))
    \o entry_if(TRUE, "fieldnorms", J("bool", c.fieldnorms))
    \o entry_if(TRUE, "record", IF c.record = <<>> THEN J("null", <<>>) ELSE J("str", c.record))
    \o entry_if(c.tokenizer.t # "none", "tokenizer",
                IF c.tokenizer.t # "none" THEN Tokenizer_json(c.tokenizer) ELSE J("bool", FALSE))
    \o entry_if(c.normalizer # <<>>, "normalizer", J("str", c.normalizer))
    \o entry_if(c.column # <<>>, "column", J("str", c.column))

\* JSONFieldIndexConfig.json
JSONFieldIndexConfig_json(c) ==
    TextFieldIndexConfig_json(c) \o entry_if(TRUE, "expand_dots", J("bool", c.expand_dots))

\* NumericFieldIndexConfig.json; BooleanFieldIndexConfig.json and
\* DateTimeFieldIndexConfig.json are the same code.
NumericFieldIndexConfig_json(c) ==
    entry_if(TRUE, "fast", J("bool", c.fast))
    \o entry_if(TRUE, "indexed", J("bool", c.indexed))
    \o entry_if(c.column # <<>>, "column", J("str", c.column))

\* c.json of a field configuration of any class.
config_json(c) ==
    J("dict", CASE c.cls = "text" -> TextFieldIndexConfig_json(c)
                [] c.cls = "json" -> JSONFieldIndexConfig_json(c)
                [] OTHER -> NumericFieldIndexConfig_json(c))

RECURSIVE field_dict(_, _)
\* {c.field: c.json for c in configs}
field_dict(configs, d) ==
    IF configs = <<>> THEN d
    ELSE field_dict(Tail(configs), dict_set(d, Head(configs).field, config_json(Head(configs))))

\* _to_json_string
to_json_string(configs) == dumps(J("dict", field_dict(configs, <<>>)))

\* The categories of IndexFieldConfig, in the order create_sql visits them.
Categories == <<"text_fields", "json_fields", "numeric_fields", "boolean_fields",
                "datetime_fields">>

RECURSIVE category_parts(_, _)
\* with_parts.append("<category>='{}'".format(_to_json_string(...))) for
\* each category of fields_config that is not empty.
category_parts(fc, names) ==
    IF names = <<>> THEN <<>>
    ELSE (IF fc[Head(names)] # <<>>
          THEN << <<Head(names) \o "=", "'">> \o to_json_string(fc[Head(names)]) \o <<"'">> >>
          ELSE <<>>)
         \o category_parts(fc, Tail(names))

\* A mutant: the category entries are written before the extra pairs.
Bm25Index_create_sql_extras_last(ix, model) ==
    <<" WITH (">>
    \o Join(<< <<"key_field=", IF ix.key_field # "" THEN ix.key_field
                                ELSE model_key_field(model)>> >>
            \o (IF ix.fields_config.t # "none"
                THEN category_parts(ix.fields_config, Categories) ELSE <<>>)
            \o [i \in 1..Len(ix.with_extra) |->
                    <<ix.with_extra[i][1] \o "=", ix.with_extra[i][2]>>],
            ", ")
    \o <<")">>

\* Bm25Index.create_sql: statement.parts["extra"].  key_field is "" for a
\* falsy key_field; with_extra is a sequence of <<key, str(value)>>.
Bm25Index_create_sql(ix, model) ==
    <<" WITH (">>
    \o Join(<< <<"key_field=", IF ix.key_field # "" THEN ix.key_field
                                ELSE model_key_field(model)>> >>
            \o [i \in 1..Len(ix.with_extra) |->
                    <<ix.with_extra[i][1] \o "=", ix.with_extra[i][2]>>]
            \o (IF ix.fields_config.t # "none"
                THEN category_parts(ix.fields_config, Categories) ELSE <<>>),
            ", ")
    \o <<")">>

\* Field configurations, tokenizers and index definitions to build.
NoTok == [t |-> "none"]
DefaultTokenizer(lowercase, stopwords) ==
    [t |-> "tokenizer", name |-> "default", lowercase |-> lowercase, stopwords |-> stopwords]

TextConfig(cls, field, tok, normalizer, column) ==
    [cls |-> cls, field |-> field, fast |-> TRUE, tokenizer |-> tok, normalizer |-> normalizer,
     record |-> <<"position">>, indexed |-> TRUE, fieldnorms |-> FALSE, column |-> column,
     expand_dots |-> TRUE]

FlagConfig(cls, field, column) ==
    [cls |-> cls, field |-> field, fast |-> TRUE, indexed |-> FALSE, column |-> column]

TextConfigLists ==
    {<<>>,
     <<TextConfig("text", <<"title">>, NoTok, <<"raw">>, <<>>)>>,
     <<TextConfig("text", <<"title">>, DefaultTokenizer([t |-> "bool", v |-> TRUE],
                                                        [t |-> "list", v |-> <<<<"the">>>>]),
                  <<"lowercase">>, <<"a", "\\", "b">>),
       TextConfig("text", <<"description">>, NoTok, <<>>, <<"say ", "\"", "hi", "\"">>)>>,
     <<TextConfig("text", <<"title">>,
                  DefaultTokenizer(PyNone, [t |-> "list", v |-> <<<<"don", "'", "t">>, <<"the">>>>]),
                  <<"raw">>, <<>>)>>}

FieldsConfigs ==
    {[t |-> "none"]}
    \cup {[t |-> "IndexFieldConfig", text_fields |-> tf, json_fields |-> jf,
           numeric_fields |-> nf, boolean_fields |-> bf, datetime_fields |-> df] :
            tf \in TextConfigLists,
            jf \in {<<>>, <<TextConfig("json", <<"metadata">>, NoTok, <<>>, <<>>)>>},
            nf \in {<<>>, <<FlagConfig("numeric", <<"rank">>, <<>>),
                           FlagConfig("numeric", <<"price">>, <<"cost">>)>>},
            bf \in {<<>>, <<FlagConfig("boolean", <<"active">>, <<>>)>>},
            df \in {<<>>, <<FlagConfig("datetime", <<"created">>, <<>>)>>}}

IndexInputs ==
    {[key_field |-> kf, with_extra |-> we, fields_config |-> fc] :
        kf \in {"id", "", "sku"},
        we \in {<<>>, << <<"target_segment_count", "8">>, <<"layer_sizes", "10kb">> >>},
        fc \in FieldsConfigs}

----------------------------------------------------------------------------
(* The state machine.  A call is [op |-> "compile", id], [op |->            *)
(* "get_schema", legacy, func] or [op |-> "construct", req].  A call that   *)
(* reaches get_version() while the cache is empty leaves its thread inside  *)
(* the probe; the call finishes when the probe returns.                     *)

NoCall == [op |-> "none"]
NoLast ==
    [op |-> "none", thread |-> 0, call |-> NoCall, ok |-> TRUE, err |-> "", sql |-> <<>>,
     params |-> <<>>, schema |-> "", match_op |-> FALSE]

\* The versions the server may report.
Versions ==
    {<<0, 2, 0>>, <<0, 9, 1>>, <<0, 19, 11>>, <<0, 20, 0>>, <<0, 21, 3>>, <<0, 100, 0>>,
     <<1, 0, 0>>}
MainVersions == {<<0, 19, 11>>, <<0, 20, 0>>}

\* The function names _get_schema is called with; "" stands for func=None.
Funcs == {"", "match", "term", "regex", "parse"}

\* The values of paradedb.settings, the strict flag among `strict`.
Settings(strict) ==
    [PARADEDB_USE_LEGACY : {{}, {"term", "match"}}, PARADEBD_USE_V2 : BOOLEAN,
     PARADEDB_RAISE_ON_MODEL_NOT_FOUND : strict]

\* The record of a finished call.
Done(op, t, call, ok, err, sql, params, schema, mo) ==
    [op |-> op, thread |-> t, call |-> call, ok |-> ok, err |-> err, sql |-> sql,
     params |-> params, schema |-> schema, match_op |-> mo]

compile_done(r, t, call, mo, b) ==
    [heap |-> r.heap, bags |-> b, needv |-> r.needv,
     last |-> Done("compile", t, call, r.ok, r.err, r.sql, r.params, "", mo)]

lookup_done(r, t, call, h) ==
    [heap |-> h, bags |-> r.bags, needv |-> r.needv,
     last |-> Done("lookup", t, call, r.ok, r.err, r.sql, r.params, "", r.match_op)
              @@ [key |-> r.key, extra |-> r.extra]]

\* What a call returns and leaves behind, get_version() returning `version`.
run_call(call, t, c, version, h, b, mc) ==
    CASE call.op = "compile" ->
            compile_done(as_sql(h, call.id, c, version), t, call, h[call.id].match_op, b)
      [] call.op = "lookup" ->
            lookup_done(ExpressionLookup_as_sql(call.cls, call.lhs, call.rhs, b, mc, c, version),
                        t, call, h)
      [] OTHER ->
            [heap |-> h, bags |-> b, needv |-> needs_version(call.legacy, call.func, c),
             last |-> Done("get_schema", t, call, TRUE, "", <<>>, <<>>,
                           get_schema(call.legacy, call.func, c, version), FALSE)]

\* The call returns r, unless it reached get_version() with the cache empty:
\* then the thread is inside the body of get_version and the call waits.
Proceed(t, call, r) ==
    IF cache = <<>> /\ r.needv
    THEN /\ pc' = [pc EXCEPT ![t] = "probing"]
         /\ pending' = [pending EXCEPT ![t] = call]
         /\ UNCHANGED <<heap, bags, last>>
    ELSE /\ heap' = r.heap
         /\ bags' = r.bags
         /\ last' = r.last
         /\ UNCHANGED <<pc, pending>>

\* A call made while the thread is idle.  sql.get_version under
\* functools.cache: a hit returns the cached value; on a miss the body runs.
Start(t, call) ==
    /\ pc[t] = "idle"
    /\ Proceed(t, call, run_call(call, t, cfg, IF cache = <<>> THEN Threshold ELSE cache[1],
                                 heap, bags, model_cache))
    /\ UNCHANGED <<cfg, server, cache, probes, model_cache>>

\* The waiting call finishes with outcome r.
Finish(r) ==
    /\ heap' = r.heap
    /\ bags' = r.bags
    /\ last' = r.last

\* The body of get_version returns in thread t: the probe statement was
\* executed, its result is cached, and the waiting call finishes.
ProbeReturn(t) ==
    /\ pc[t] = "probing"
    /\ probes' = probes + 1
    /\ cache' = <<VersionStr(server)>>
    /\ Finish(run_call(pending[t], t, cfg, VersionStr(server), heap, bags, model_cache))
    /\ pc' = [pc EXCEPT ![t] = "idle"]
    /\ pending' = [pending EXCEPT ![t] = NoCall]
    /\ UNCHANGED <<cfg, server, model_cache>>

\* expr = Kind(...): the object is allocated unless __init__ raises.
Construct(t, req) ==
    /\ pc[t] = "idle"
    /\ LET e == init_error(req)
       IN  /\ heap' = IF e = "" THEN Append(heap, init(req)) ELSE heap
           /\ last' = Done("construct", t, [op |-> "construct", req |-> req], e = "", e,
                            <<>>, <<>>, "", req.match_op)
    /\ UNCHANGED <<cfg, server, cache, probes, pc, pending, bags, model_cache>>

ConstructLeaf(t) ==
    /\ heap = <<>>
    /\ \E req \in LeafInputs : Construct(t, req)

ConstructCombinator(t) ==
    /\ Len(heap) = 1
    /\ \E req \in CombinatorInputs(DOMAIN heap) : Construct(t, req)

ConstructRange(t) ==
    /\ heap = <<>>
    /\ \E req \in AllRangeInputs : Construct(t, req)

ConstructProximityRegex(t) ==
    /\ heap = <<>>
    /\ \E req \in ProximityRegexInputs : Construct(t, req)

ConstructProximity(t) ==
    /\ Len(heap) = 1
    /\ \E req \in ProximityInputs(DOMAIN heap) : Construct(t, req)

Compile(t) == \E id \in DOMAIN heap : Start(t, [op |-> "compile", id |-> id])

GetSchema(t) ==
    \E legacy \in BOOLEAN, func \in Funcs :
        Start(t, [op |-> "get_schema", legacy |-> legacy, func |-> func])

\* rhs = LookupParameter(...).  The object is recorded with `given`, the
\* keyword arguments it was made with, which no operation reads or writes.
NewBag(t) ==
    /\ pc[t] = "idle"
    /\ bags = <<>>
    /\ \E bag \in BagInputs :
            bags' = Append(bags, [args |-> bag.args, kwargs |-> bag.kwargs, given |-> bag.kwargs])
    /\ UNCHANGED <<cfg, server, cache, probes, pc, pending, heap, last, model_cache>>

\* The query compiler compiles the lookup cls(lhs, rhs).
Lookup(t) ==
    \E cls \in LookupClasses, lhs \in LhsInputs, rhs \in RhsInputs(bags) :
        Start(t, [op |-> "lookup", cls |-> cls, lhs |-> lhs, rhs |-> rhs])

\* rhs = LookupParameter(...) of a search-family lookup.
NewSearchBag(t) ==
    /\ pc[t] = "idle"
    /\ bags = <<>>
    /\ \E bag \in SearchBagInputs :
            bags' = Append(bags, [args |-> bag.args, kwargs |-> bag.kwargs, given |-> bag.kwargs])
    /\ UNCHANGED <<cfg, server, cache, probes, pc, pending, heap, last, model_cache>>

\* The query compiler compiles the search-family lookup cls(lhs, rhs).
LookupSearch(t) ==
    \E cls \in SearchLookups, lhs \in LhsInputs, rhs \in SearchRhsInputs(bags) :
        Start(t, [op |-> "lookup", cls |-> cls, lhs |-> lhs, rhs |-> rhs])

\* The tables resolve_model is asked for.
Tables == {"article", "auth_user", "no_such_table", "T9"}

\* ModelResolverFromTable.resolve_model(table), called on its own.
ResolveModel(t) ==
    /\ pc[t] = "idle"
    /\ \E table \in Tables :
            /\ model_cache' = resolve_model(model_cache, table).cache
            /\ last' = Done("resolve_model", t, [op |-> "resolve_model", table |-> table],
                            resolve_model(model_cache, table).ok,
                            resolve_model(model_cache, table).err, <<>>, <<>>, "", FALSE)
                       @@ [model |-> resolve_model(model_cache, table).model]
    /\ UNCHANGED <<cfg, server, cache, probes, pc, pending, heap, bags>>

\* The process after start-up (ParadeDBConfig.ready has preloaded the model
\* cache), nothing built and nothing probed yet.
InitWith(versions, strict) ==
    /\ cfg \in Settings(strict)
    /\ server \in versions
    /\ cache = <<>>
    /\ probes = 0
    /\ pc = [t \in Threads |-> "idle"]
    /\ pending = [t \in Threads |-> NoCall]
    /\ heap = <<>>
    /\ bags = <<>>
    /\ model_cache = preload
    /\ last = NoLast

\* One thread builds one leaf, one combinator over it, and compiles them.
Init == InitWith(MainVersions, {FALSE})

Next ==
    \/ ConstructLeaf(MainThread)
    \/ ConstructCombinator(MainThread)
    \/ Compile(MainThread)
    \/ ProbeReturn(MainThread)

Spec == Init /\ [][Next]_vars

\* Several threads call the Dialect Selector.
InitDialect == InitWith(Versions, {FALSE})

NextDialect == \E t \in Threads : GetSchema(t) \/ ProbeReturn(t)

SpecDialect == InitDialect /\ [][NextDialect]_vars

\* One thread compiles lookups, some of them sharing a LookupParameter.
InitLookup == InitWith(MainVersions, BOOLEAN)

NextLookup ==
    \/ NewBag(MainThread)
    \/ Lookup(MainThread)
    \/ ResolveModel(MainThread)
    \/ ProbeReturn(MainThread)

SpecLookup == InitLookup /\ [][NextLookup]_vars

\* One thread builds a Range from every pair of tags and compiles it.
NextRange ==
    \/ ConstructRange(MainThread)
    \/ Compile(MainThread)
    \/ ProbeReturn(MainThread)

SpecRange == Init /\ [][NextRange]_vars

\* One thread builds a ProximityRegex, a Proximity over operand lists that
\* may hold it, and compiles them.
NextProximity ==
    \/ ConstructProximityRegex(MainThread)
    \/ ConstructProximity(MainThread)
    \/ Compile(MainThread)

\* Proximity never reaches the Dialect Selector: one configuration.
InitProximity ==
    /\ InitWith({<<0, 20, 0>>}, {FALSE})
    /\ cfg.PARADEBD_USE_V2
    /\ cfg.PARADEDB_USE_LEGACY = {}

SpecProximity == InitProximity /\ [][NextProximity]_vars

\* The schema editor asks the index for its statement.
CreateSql(t) ==
    /\ pc[t] = "idle"
    /\ \E ix \in IndexInputs, model \in {QueryModel} :
            last' = Done("create_sql", t, [op |-> "create_sql", index |-> ix, model |-> model],
                         TRUE, "", Bm25Index_create_sql(ix, model), <<>>, "", FALSE)
    /\ UNCHANGED <<cfg, server, cache, probes, pc, pending, heap, bags, model_cache>>

NextIndex == CreateSql(MainThread)

\* create_sql reads no setting and never reaches the Dialect Selector: one
\* configuration.
SpecIndex == InitProximity /\ [][NextIndex]_vars

\* The field configurations a caller may ask for: every class, a text or
\* JSON one with a record mode and a normalizer that are None (<<>>), one
\* of the supported names or another name.
FieldConfigInputs ==
    {[cls |-> cls, field |-> <<"title">>, fast |-> fast, tokenizer |-> tok,
      normalizer |-> normalizer, record |-> record, indexed |-> indexed, fieldnorms |-> TRUE,
      column |-> <<>>, expand_dots |-> expand_dots] :
        cls \in {"text", "json"}, fast \in BOOLEAN, indexed \in BOOLEAN, expand_dots \in BOOLEAN,
        tok \in {NoTok, DefaultTokenizer(PyNone, PyNone)},
        normalizer \in {<<>>, <<"raw">>, <<"lowercase">>, <<"keyword">>},
        record \in {<<>>, <<"position">>, <<"freq">>, <<"basic">>, <<"all">>}}
    \cup {[cls |-> cls, field |-> <<"rank">>, fast |-> fast, indexed |-> indexed,
           column |-> column] :
            cls \in {"numeric", "boolean", "datetime"}, fast \in BOOLEAN, indexed \in BOOLEAN,
            column \in {<<>>, <<"cost">>}}

\* A field configuration is constructed and, when the constructor returns,
\* asked for its json.
ConstructFieldConfig(t) ==
    /\ pc[t] = "idle"
    /\ last = NoLast
    /\ \E c \in FieldConfigInputs :
            LET err == IF c.cls \in {"text", "json"}
                       THEN TextFieldIndexConfig_init_error(c.record, c.normalizer) ELSE ""
            IN  last' = Done("field_config", t, [op |-> "field_config", config |-> c],
                             err = "", err, <<>>, <<>>, "", FALSE)
                        @@ [json |-> IF err = "" THEN config_json(c) ELSE J("null", <<>>)]
    /\ UNCHANGED <<cfg, server, cache, probes, pc, pending, heap, bags, model_cache>>

NextFieldConfig == ConstructFieldConfig(MainThread)

\* A field configuration reads no setting: one configuration.
SpecFieldConfig == InitProximity /\ [][NextFieldConfig]_vars

\* One thread compiles search-family lookups, some of them sharing a
\* LookupParameter.  A Search never reaches the Dialect Selector.
NextSearch ==
    \/ NewSearchBag(MainThread)
    \/ LookupSearch(MainThread)

SpecSearch == InitProximity /\ [][NextSearch]_vars

\* The elements an array is made of: the strings of up to MaxChars
\* characters over a letter, a quote and a backslash, None, an int, a float.
ArrayElements ==
    {PyS(cs) : cs \in UNION {[1..k -> {"a", "'", "\\"}] : k \in 0..MaxChars}}
    \cup {PyNone, PyI("7"), [t |-> "float", v |-> "1.5"]}

\* postgres_array(items), called on its own, once in a run.
EncodeArray(t) ==
    /\ pc[t] = "idle"
    /\ last = NoLast
    /\ \E items \in UNION {[1..k -> ArrayElements] : k \in 0..2} :
            last' = Done("postgres_array", t, [op |-> "postgres_array", items |-> items],
                         TRUE, "", <<postgres_array(items)>>, <<>>, "", FALSE)
    /\ UNCHANGED <<cfg, server, cache, probes, pc, pending, heap, bags, model_cache>>

NextArray == EncodeArray(MainThread)

\* postgres_array reads no setting: one configuration.
SpecArray == InitProximity /\ [][NextArray]_vars

----------------------------------------------------------------------------
(* The properties checked of the model. *)

\* The version get_version() returns, or would return, in this process.
ServerVersion == VersionStr(server)

\* The object the latest compile was called on, as the compile left it.
Compiled == heap[last.call.id]

CompiledOk(kinds) ==
    /\ last.op = "compile"
    /\ last.ok
    /\ Compiled.kind \in kinds

Containers == {"Boolean", "DisjunctionMax", "Boost", "ConstScore", "TermSet"}
MatchOpKinds == (LeafKinds \ {"ProximityRegex"}) \cup Containers

\* The kinds lowered through _make_schema_sql, and their function names.
FuncOf ==
    [Match |-> "match", Range |-> "range", RangeTerm |-> "range_term", Regex |-> "regex",
     Term |-> "term", FuzzyTerm |-> "fuzzy_term", Phrase |-> "phrase",
     PhrasePrefix |-> "phrase_prefix"]

\* The opening fragments "<schema>.<function>(" of the calls.
CallHeads ==
    {sc \o "." \o f \o "(" :
        sc \in {"paradedb", "pdb"},
        f \in {"all", "empty", "match", "exists", "range", "range_term", "regex", "term",
               "fuzzy_term", "phrase", "phrase_prefix", "snippet", "more_like_this", "parse",
               "parse_with_field", "boolean", "term_set", "const_score", "boost",
               "disjunction_max"}}

\* sql is one schema-qualified function call and nothing in front of it.
IsCall(sql) == sql # <<>> /\ sql[1] \in CallHeads /\ sql[Len(sql)] = ")"

\* sql is "<left> @@@ <call>".
IsPrefixed(sql, left) ==
    /\ Len(sql) > 2
    /\ sql[1] = left
    /\ sql[2] = " @@@ "
    /\ IsCall(SubSeq(sql, 3, Len(sql)))

\* The compiled object writes its field as left-hand side: a kind lowered
\* through _make_schema_sql, in the current dialect, its lhs not suppressed.
EmitsFieldLhs(n) ==
    /\ n.kind \in DOMAIN FuncOf
    /\ ~ n.ignore_lhs
    /\ Truthy(n.pfield)
    /\ get_schema(n.legacy, FuncOf[n.kind], cfg, ServerVersion) = "pdb"

C2_RuleOrder ==
    last.op = "get_schema" =>
        /\ last.call.legacy => last.schema = "paradedb"
        /\ (~ last.call.legacy /\ last.call.func \in cfg.PARADEDB_USE_LEGACY)
                => last.schema = "paradedb"
        /\ (~ last.call.legacy /\ last.call.func \notin cfg.PARADEDB_USE_LEGACY
                /\ cfg.PARADEBD_USE_V2) => last.schema = "pdb"
        /\ (~ last.call.legacy /\ last.call.func \notin cfg.PARADEDB_USE_LEGACY
                /\ ~ cfg.PARADEBD_USE_V2)
                => /\ cache = <<ServerVersion>>
                   /\ last.schema = IF VersionAtLeast(cache[1]) THEN "pdb" ELSE "paradedb"

\* C2 witness: a function of the always-legacy set asked for while the
\* force-current flag is set.
C2_Witness ==
    /\ last.op = "get_schema"
    /\ ~ last.call.legacy
    /\ last.call.func \in cfg.PARADEDB_USE_LEGACY
    /\ cfg.PARADEBD_USE_V2
    /\ last.schema = "paradedb"

\* C3 as stated: with no override, no always-legacy entry and no
\* force-current flag, the Dialect Selector returns current exactly when
\* the version major.minor.patch is numerically at or above 0.20.
C3_NumericThreshold ==
    (/\ last.op = "get_schema"
     /\ ~ last.call.legacy
     /\ last.call.func \notin cfg.PARADEDB_USE_LEGACY
     /\ ~ cfg.PARADEBD_USE_V2)
        => (last.schema = "pdb" <=> (server[1] > 0 \/ server[2] >= 20))

\* C4 as stated: the probe statement is executed at most once, under any
\* interleaving of the threads.
C4_ProbeAtMostOnce == probes <= 1

\* Two outcomes of as_sql are the same SQL text and parameter list.
SameOutcome(r1, r2) == r1.ok = r2.ok /\ r1.sql = r2.sql /\ r1.params = r2.params

\* C5 as stated: a lookup compiled once more with the same right-hand
\* parameter bag yields the SQL text and the parameters it yielded before.
C5_LookupIdempotent ==
    (last.op = "lookup" /\ pc[MainThread] = "idle") =>
        SameOutcome(ExpressionLookup_as_sql(last.call.cls, last.call.lhs, last.call.rhs,
                                            bags, model_cache, cfg, ServerVersion),
                    last)

\* C6 as stated: a compile changes no field of any object, so every object
\* compiled on its own after it yields what it would have yielded before.
C6_CompileLeavesObjectsAlone ==
    [][(last'.op = "compile" /\ last'.ok) =>
            \A id \in DOMAIN heap :
                SameOutcome(as_sql(heap', id, cfg, ServerVersion),
                            as_sql(heap, id, cfg, ServerVersion))]_vars

\* C7 as stated: the SQL of a container holds no "<identity-key> @@@ "
\* prefix of a child: past the container's own prefix there is no " @@@ ".
C7_ChildrenSuppressed ==
    CompiledOk(Containers) =>
        \A i \in 1..Len(last.sql) :
            last.sql[i] = " @@@ " => (Compiled.match_op /\ i = 2)

\* The keyword fragments of paradedb.boolean(...).
BooleanKeywords == {"must := ARRAY[", "must_not := ARRAY[", "should := ARRAY["}
IsBooleanKeyword(frag) == frag \in BooleanKeywords

\* C8: a Boolean constructs exactly when one of its groups is non-empty,
\* and its SQL names must, must_not, should, in that order, exactly for
\* the non-empty groups, never with an empty array.
C8_BooleanGroups ==
    /\ (last.op = "construct" /\ last.call.req.kind = "Boolean") =>
            (last.ok <=> (\/ last.call.req.a.must # <<>>
                          \/ last.call.req.a.must_not # <<>>
                          \/ last.call.req.a.should # <<>>))
    /\ CompiledOk({"Boolean"}) =>
            /\ SelectSeq(last.sql, IsBooleanKeyword)
                 = (IF Compiled.a.must # <<>> THEN <<"must := ARRAY[">> ELSE <<>>)
                   \o (IF Compiled.a.must_not # <<>> THEN <<"must_not := ARRAY[">> ELSE <<>>)
                   \o (IF Compiled.a.should # <<>> THEN <<"should := ARRAY[">> ELSE <<>>)
            /\ \A i \in 1..(Len(last.sql) - 1) :
                    last.sql[i] \in BooleanKeywords => last.sql[i + 1] # "]"

\* C8 witness: a Boolean with must and should but no must_not, compiled.
C8_Witness ==
    /\ CompiledOk({"Boolean"})
    /\ Compiled.a.must # <<>>
    /\ Compiled.a.must_not = <<>>
    /\ Compiled.a.should # <<>>

\* The text "<range_type>(<start>, <end>, '<bounds>')" of a Range request.
RangeText(a) ==
    a.range_type \o "("
    \o (IF a.start.t = "date" THEN "'" \o a.start.v \o "'" ELSE a.start.v) \o ", "
    \o (IF a.end.t = "none" THEN "NULL" ELSE a.end.v)
    \o ", '" \o a.bounds \o "')"

\* C9: a Range constructs exactly when its range type is one of the 5
\* supported and its bounds tag one of the 4 supported, and a constructed
\* Range always compiles, "<range_type>(<start>, <end>, '<bounds>')" with
\* NULL for an absent end being part of its SQL.
C9_RangeTags ==
    /\ (last.op = "construct" /\ last.call.req.kind = "Range") =>
            (last.ok <=>
                /\ last.call.req.a.range_type
                     \in {"int4range", "int8range", "daterange", "tsrange", "tstzrange"}
                /\ last.call.req.a.bounds \in {"[)", "(]", "[]", "()"})
    /\ (last.op = "compile" /\ Compiled.kind = "Range") =>
            /\ last.ok
            /\ \E i \in 1..Len(last.sql) : last.sql[i] = RangeText(Compiled.a)

\* C9 witness: a Range with no end compiled, NULL in its range text.
C9_Witness ==
    /\ CompiledOk({"Range"})
    /\ Compiled.a.end.t = "none"
    /\ \E i \in 1..Len(last.sql) : last.sql[i] = "int8range(1, NULL, '(]')"

\* The operand list is odd, at least 3 long, an operator at every odd
\* 0-based position.
ProximityWellFormed(values) ==
    /\ Len(values) >= 3
    /\ Len(values) % 2 = 1
    /\ \A i \in 1..Len(values) :
            (i - 1) % 2 = 1 =>
                (values[i].t = "str" /\ Text(values[i].v) \in {"##", "##>"})

\* C10 as stated: an operand list that is shorter than 3, of even length,
\* or without an operator at an operator position fails at construction
\* or at compile and never yields SQL.
C10_MalformedNeverCompiles ==
    (/\ last.op = "compile"
     /\ Compiled.kind = "Proximity"
     /\ ~ ProximityWellFormed(Compiled.a.values)) => ~ last.ok

\* The compiled object was lowered in the legacy dialect as function func.
InLegacy(func) == get_schema(Compiled.legacy, func, cfg, ServerVersion) = "paradedb"

\* The call of a legacy Term: the field and the value, both placeholders.
LegacyTermCall(n) ==
    <<"paradedb.term(", PH, ",", PH>>
    \o (IF n.a.enum_cast_field # "None" THEN <<"::" \o n.a.enum_cast_field>> ELSE <<>>)
    \o <<")">>

\* C11 as stated: a Term compiled in the legacy dialect has the term value
\* as its only bound parameter.
C11_LegacyTermValueOnly ==
    (CompiledOk({"Term"}) /\ InLegacy("term")) => last.params = <<Compiled.a.value>>

\* C11 amended: a Term compiled in the legacy dialect emits
\* "paradedb.term(%s, %s)" behind its identity-key prefix (when match_op is
\* set), the field being the first placeholder of the call, and binds the
\* field name and then the term value.
C11_LegacyTermBindsField ==
    (CompiledOk({"Term"}) /\ InLegacy("term")) =>
        /\ last.sql = with_match_op(Compiled, LegacyTermCall(Compiled))
        /\ last.params = <<PStr(Str(Compiled.pfield)), Compiled.a.value>>

\* C11 witness: Term("title", 100, match_op=True) compiled in the legacy
\* dialect.
C11_Witness ==
    /\ CompiledOk({"Term"})
    /\ InLegacy("term")
    /\ Compiled.match_op
    /\ last.sql = <<"id", " @@@ ", "paradedb.term(", PH, ",", PH, ")">>
    /\ last.params = <<PStr("title"), PInt("100")>>

\* The function call of the latest compile, its identity-key prefix removed.
CallOf(n, sql) == IF n.match_op THEN SubSeq(sql, 3, Len(sql)) ELSE sql

Has(sql, frag) == \E i \in 1..Len(sql) : sql[i] = frag

\* C12 as stated: the argument list of a MoreLikeThis starts with one mode
\* argument, key_value (and no document) when a document identifier was
\* supplied and the document otherwise, and every tuning knob that was
\* supplied is emitted as a named argument, and no other.
C12_MoreLikeThisArguments ==
    CompiledOk({"MoreLikeThis"}) =>
        LET call == CallOf(Compiled, last.sql)
        IN  /\ call[1] = "pdb.more_like_this("
            /\ IF Compiled.a.document_id.t # "none"
               THEN call[2] = "key_value :=" /\ ~ Has(call, "document :=")
               ELSE call[2] = "document :=" /\ ~ Has(call, "key_value :=")
            /\ \A i \in 1..Len(MltKnobs) :
                    Has(call, MltKnobSql[MltKnobs[i]])
                        <=> Compiled.a.knobs[MltKnobs[i]].t # "none"

\* What the Dialect Selector returns for the compiled object as func.
SelectedSchema(func) == get_schema(Compiled.legacy, func, cfg, ServerVersion)

\* The compiled Parse carries the schema the Dialect Selector returns for
\* 'parse' and the node's legacy flag.
ParseFollowsDialect ==
    CompiledOk({"Parse"}) =>
        CallOf(Compiled, last.sql)[1] = SelectedSchema("parse") \o ".parse("

\* The compiled ParseWithField calls parse_with_field of `schema` with the
\* field and the query as its first two arguments.
ParseWithFieldIn(schema) ==
    CompiledOk({"ParseWithField"}) =>
        /\ SubSeq(CallOf(Compiled, last.sql), 1, 4)
             = <<schema \o ".parse_with_field(", PH, ", ", PH>>
        /\ SubSeq(last.params, 1, 2) = <<PStr(Str(Compiled.pfield)), PStr(Compiled.a.value)>>

\* C13 as stated: Parse follows the Dialect Selector, and ParseWithField
\* always emits the current-schema (pdb) form with field and query.
C13_ParseWithFieldCurrent == ParseFollowsDialect /\ ParseWithFieldIn("pdb")

\* C13 amended: Parse follows the Dialect Selector, and ParseWithField
\* always emits the legacy-schema (paradedb) form with field and query,
\* whatever the dialect configuration and the server version.
C13_ParseWithFieldLegacy == ParseFollowsDialect /\ ParseWithFieldIn("paradedb")

\* C13 witness: a ParseWithField compiled where the Dialect Selector
\* returns the current schema for it, and it emits the paradedb form.
C13_Witness ==
    /\ CompiledOk({"ParseWithField"})
    /\ SelectedSchema("parse_with_field") = "pdb"
    /\ CallOf(Compiled, last.sql)[1] = "paradedb.parse_with_field("

\* The WITH clause of the latest create_sql and the index it was asked of.
Created == last.op = "create_sql"
Index == last.call.index

\* The entries of a WITH clause that holds key_field, then `first`, then
\* `second`.
WithClause(key, first, second) ==
    <<" WITH (">> \o Join(<< <<"key_field=", key>> >> \o first \o second, ", ") \o <<")">>

ExpectedKey == IF Index.key_field # "" THEN Index.key_field ELSE model_key_field(last.call.model)

\* name='<JSON of the category>' for the non-empty categories, in order.
ExpectedCategories ==
    IF Index.fields_config.t = "none" THEN <<>>
    ELSE LET fc == Index.fields_config
             one(name) == IF fc[name] # <<>>
                          THEN << <<name \o "=", "'">> \o to_json_string(fc[name]) \o <<"'">> >>
                          ELSE <<>>
         IN  one("text_fields") \o one("json_fields") \o one("numeric_fields")
             \o one("boolean_fields") \o one("datetime_fields")

\* key=value for the caller's extra pairs, verbatim and in their order.
ExpectedExtras ==
    [i \in 1..Len(Index.with_extra) |-> <<Index.with_extra[i][1] \o "=", Index.with_extra[i][2]>>]

\* C14 as stated: the WITH clause holds key_field, then the entries of the
\* non-empty categories, then the caller's extra pairs.
C14_ExtrasLast ==
    Created => last.sql = WithClause(ExpectedKey, ExpectedCategories, ExpectedExtras)

\* C14 amended: the WITH clause holds key_field (the index's identity key,
\* else the model's default), then the caller's extra pairs verbatim, then
\* one entry per non-empty category in the order text, JSON, numeric,
\* boolean, datetime, and none for an empty category.
C14_ExtrasBeforeCategories ==
    Created => last.sql = WithClause(ExpectedKey, ExpectedExtras, ExpectedCategories)

\* C14 witness: an index with extra pairs, a text and a datetime category
\* and no JSON category, and no identity key of its own.
C14_Witness ==
    /\ Created
    /\ Index.key_field = ""
    /\ Index.with_extra # <<>>
    /\ Index.fields_config.t # "none"
    /\ Index.fields_config.text_fields # <<>>
    /\ Index.fields_config.json_fields = <<>>
    /\ Index.fields_config.datetime_fields # <<>>
    /\ Has(last.sql, "datetime_fields=")

\* Reading JSON text: [ok, v, rest], v the value read and rest the
\* fragments after it.
JOk(v, rest) == [ok |-> TRUE, v |-> v, rest |-> rest]
JFail == [ok |-> FALSE, v |-> J("bool", FALSE), rest |-> <<>>]

RECURSIVE parse_string(_, _)
\* The inside of a string up to its closing quote, escapes undone.
parse_string(ts, acc) ==
    IF ts = <<>> THEN JFail
    ELSE IF Head(ts) = "\"" THEN JOk(J("str", acc), Tail(ts))
    ELSE IF Head(ts) = "\\"
         THEN (IF Len(ts) < 2 THEN JFail ELSE parse_string(Tail(Tail(ts)), Append(acc, ts[2])))
    ELSE parse_string(Tail(ts), Append(acc, Head(ts)))

RECURSIVE parse_value(_)
RECURSIVE parse_elements(_, _)
RECURSIVE parse_members(_, _)

\* After an element r of a list: a comma and more, or the closing bracket.
elements_next(r, acc) ==
    IF ~ r.ok \/ r.rest = <<>> THEN JFail
    ELSE IF Head(r.rest) = ", " THEN parse_elements(Tail(r.rest), Append(acc, r.v))
    ELSE IF Head(r.rest) = "]" THEN JOk(J("list", Append(acc, r.v)), Tail(r.rest))
    ELSE JFail

parse_elements(ts, acc) == elements_next(parse_value(ts), acc)

\* After the value r of the member k: a comma and more, or the closing brace.
members_next(k, r, acc) ==
    IF ~ r.ok \/ r.rest = <<>> THEN JFail
    ELSE IF Head(r.rest) = ", " THEN parse_members(Tail(r.rest), dict_set(acc, k, r.v))
    ELSE IF Head(r.rest) = "}" THEN JOk(J("dict", dict_set(acc, k, r.v)), Tail(r.rest))
    ELSE JFail

\* After the key k of a member: the colon and the value.
members_value(k, acc) ==
    IF ~ k.ok \/ k.rest = <<>> THEN JFail
    ELSE IF Head(k.rest) # ": " THEN JFail
    ELSE members_next(k.v.v, parse_value(Tail(k.rest)), acc)

parse_members(ts, acc) ==
    IF ts = <<>> THEN JFail
    ELSE IF Head(ts) # "\"" THEN JFail
    ELSE members_value(parse_string(Tail(ts), <<>>), acc)

parse_value(ts) ==
    IF ts = <<>> THEN JFail
    ELSE CASE Head(ts) = "\"" -> parse_string(Tail(ts), <<>>)
           [] Head(ts) = "true" -> JOk(J("bool", TRUE), Tail(ts))
           [] Head(ts) = "false" -> JOk(J("bool", FALSE), Tail(ts))
           [] Head(ts) = "[" ->
                IF Len(ts) > 1 /\ ts[2] = "]" THEN JOk(J("list", <<>>), Tail(Tail(ts)))
                ELSE parse_elements(Tail(ts), <<>>)
           [] Head(ts) = "{" ->
                IF Len(ts) > 1 /\ ts[2] = "}" THEN JOk(J("dict", <<>>), Tail(Tail(ts)))
                ELSE parse_members(Tail(ts), <<>>)
           [] OTHER -> JFail

\* json.loads(text): the value, when text is one JSON value and no more.
json_loads(ts) == IF parse_value(ts).ok /\ parse_value(ts).rest = <<>> THEN parse_value(ts) ELSE JFail

\* The number of consecutive quotes that end at position p of ts.
QuoteRun(ts, p) ==
    CHOOSE k \in 0..p :
        /\ \A m \in 0..(k - 1) : ts[p - m] = "'"
        /\ (k = p \/ ts[p - k] # "'")

\* Where an SQL string literal whose opening quote was read ends: at the
\* first quote that is not half of a doubled quote.
LiteralEnd(ts) ==
    CHOOSE e \in 1..(Len(ts) + 1) :
        LET closes(q) == q = Len(ts) + 1
                         \/ /\ ts[q] = "'"
                            /\ (q = Len(ts) \/ ts[q + 1] # "'")
                            /\ QuoteRun(ts, q) % 2 = 1
        IN  closes(e) /\ \A q \in 1..(e - 1) : ~ closes(q)

\* The content of that literal, a doubled quote standing for one.
sql_literal(ts) ==
    LET kept == {p \in 1..(LiteralEnd(ts) - 1) : ts[p] # "'" \/ QuoteRun(ts, p) % 2 = 1}
    IN  [n \in 1..Cardinality(kept) |->
            ts[CHOOSE p \in kept : Cardinality({q \in kept : q < p}) = n - 1]]

\* The string the WITH clause gives the category: the literal after name=.
CategoryString(sql, name) ==
    LET i == CHOOSE i \in 1..Len(sql) : sql[i] = name \o "="
    IN  sql_literal(SubSeq(sql, i + 2, Len(sql)))

\* The original mapping field -> configuration of a list of configurations.
OriginalMapping(configs) == J("dict", field_dict(configs, <<>>))

\* C15 as stated: for every category that is not empty, the JSON parse of
\* the category's string in the WITH clause is the mapping from each
\* configured field to that field's configuration.
C15_RoundTrip ==
    (Created /\ Index.fields_config.t # "none") =>
        \A i \in 1..Len(Categories) :
            Index.fields_config[Categories[i]] # <<>> =>
                /\ Has(last.sql, Categories[i] \o "=")
                /\ json_loads(CategoryString(last.sql, Categories[i])).ok
                /\ json_loads(CategoryString(last.sql, Categories[i])).v
                     = OriginalMapping(Index.fields_config[Categories[i]])

\* The latest call was a lookup compilation; its left-hand column and the
\* keyword arguments its caller wrote: those the LookupParameter was made
\* with, those of a dict, none for a list or a single value.
LookedUp == last.op = "lookup"

CallerKwargs ==
    CASE last.call.rhs.t = "bag" -> bags[last.call.rhs.id].given
      [] last.call.rhs.t = "dict" -> last.call.rhs.d
      [] OTHER -> EmptyDict

\* The tables of the installed models, and the table the alias of the
\* lookup's left-hand side stands for in the query.
InstalledTables == {Models[m].db_table : m \in DOMAIN Models}
LhsTable ==
    IF last.call.lhs.alias \in DOMAIN AliasMap THEN AliasMap[last.call.lhs.alias]
    ELSE last.call.lhs.alias
LhsKnown == LhsTable \in InstalledTables

\* The model that owns the left-hand field and the alias it is known by:
\* the model of the table and the call's alias, or the query's own model
\* and table when the table is unknown.
OwnerModel ==
    IF LhsKnown THEN CHOOSE m \in DOMAIN Models : Models[m].db_table = LhsTable ELSE QueryModel
OwnerAlias == IF LhsKnown THEN last.call.lhs.alias ELSE Models[QueryModel].db_table
OwnerKey ==
    OwnerAlias \o "."
    \o (IF Models[OwnerModel].paradedb_key_field # "" THEN Models[OwnerModel].paradedb_key_field
        ELSE Models[OwnerModel].pk)

\* C16 as stated: a lookup whose caller supplied no key_field compiles its
\* node with the default identity key of the table that owns the left-hand
\* field, qualified by the alias of this call.
C16_DefaultKeyOfOwner ==
    (LookedUp /\ last.ok /\ "key_field" \notin DOMAIN CallerKwargs) => last.key = OwnerKey

\* C17 as stated: a lookup compiles its node with match_op false exactly
\* when the caller's keyword arguments set match_op to false.
C17_MatchOpFromCaller ==
    (LookedUp /\ last.ok) =>
        (last.match_op
            <=> ~ ("match_op" \in DOMAIN CallerKwargs /\ CallerKwargs["match_op"] = FALSE))

C20_CacheReadOnly ==
    /\ DOMAIN model_cache = InstalledTables
    /\ \A m \in DOMAIN Models : model_cache[Models[m].db_table] = m
    /\ last.op = "resolve_model" =>
            IF last.call.table \in InstalledTables
            THEN last.ok /\ Models[last.model].db_table = last.call.table
            ELSE ~ last.ok /\ last.err = "ModelNotFoundError"

\* C20 witness: resolve_model missed after a lookup on an unknown alias
\* had fallen back, and the cache still holds the installed tables.
C20_Witness ==
    /\ last.op = "resolve_model"
    /\ last.call.table = "T9"
    /\ ~ last.ok
    /\ bags # <<>>
    /\ DOMAIN model_cache = InstalledTables

----------------------------------------------------------------------------
(* C19.  Construction errors. *)

\* The constructor calls C19 says fail: an enum-like tag outside its list, a
\* Boolean with no group, a MoreLikeThis with neither mode argument.
MustFailAtConstruction(req) ==
    CASE req.kind = "Match" ->
            req.a.tokenizer.t = "str" /\ req.a.tokenizer.v \notin Match_tokenizers
      [] req.kind = "Range" ->
            req.a.range_type \notin RangeType_all \/ req.a.bounds \notin RangeBound_all
      [] req.kind = "RangeTerm" ->
            req.a.cast \notin Cast_all
            \/ (req.a.relation # "None" /\ req.a.relation \notin Relation_all)
      [] req.kind = "Boolean" ->
            req.a.must = <<>> /\ req.a.must_not = <<>> /\ req.a.should = <<>>
      [] req.kind = "MoreLikeThis" ->
            req.a.document_id.t = "none" /\ req.a.document = <<>>
      [] req.kind = "Search" -> req.a.op \notin {"@@@", "|||", "===", "###", "&&&"}
      [] OTHER -> FALSE

ConstructionChecked == {"Match", "Range", "RangeTerm", "Boolean", "MoreLikeThis", "Search"}

\* C19 as stated: a constructor call with an invalid tag or without its
\* mutually-required argument raises, and compiling a node that was
\* constructed raises neither ValueError nor AssertionError.
C19_ConstructionErrorsNotDeferred ==
    /\ (last.op = "construct" /\ MustFailAtConstruction(last.call.req)) => ~ last.ok
    /\ (last.op = "compile" /\ Compiled.kind \in ConstructionChecked)
            => last.err \notin {"ValueError", "AssertionError"}

----------------------------------------------------------------------------
(* C21.  The field of the nodes lowered through _make_schema_sql. *)

\* The field of the compiled object as the emitted SQL names it.
CompiledField == Str(Compiled.pfield)

\* sql opens with "<field> @@@ ".
HasFieldLhs(sql) == Len(sql) > 2 /\ sql[1] = CompiledField /\ sql[2] = " @@@ "

\* The call of the latest compile: the SQL without its "<left> @@@ " prefix.
InnerCall(sql) == IF Len(sql) > 2 /\ sql[2] = " @@@ " THEN SubSeq(sql, 3, Len(sql)) ELSE sql

----------------------------------------------------------------------------
(* C22.  Exists. *)

\* C22 as stated: an Exists with a field carries the schema the Dialect
\* Selector returns for it, and passes the field as the argument of the
\* call exactly in the legacy dialect.
C22_ExistsFollowsDialect ==
    (CompiledOk({"Exists"}) /\ Truthy(Compiled.pfield)) =>
        LET call == InnerCall(last.sql)
        IN  /\ call[1] = SelectedSchema("exists") \o ".exists("
            /\ (last.params = <<PStr(CompiledField)>>) <=> (SelectedSchema("exists") = "paradedb")

----------------------------------------------------------------------------
(* C23.  The operands of a Proximity. *)

\* Positions of an operand list, counted from 1: the first, fifth, ... is a
\* value, the third, seventh, ... a distance, the even ones operators.
IsValuePos(i) == (i - 1) % 4 = 0
IsDistancePos(i) == (i - 1) % 4 = 2

\* An integer, or a string of decimal digits.
ValidDistance(v) ==
    \/ v.t = "int"
    \/ (v.t = "str" /\ v.v # <<>> /\ \A k \in 1..Len(v.v) : v.v[k] \in DigitChars)

\* What the operand at position i binds: the integer at a distance
\* position, the scalar at a value position, nothing for a spliced object
\* or an operator.
BoundAt(v, i) ==
    IF IsDistancePos(i) THEN <<PInt(Text(v.v))>>
    ELSE IF IsValuePos(i) /\ v.t # "node" THEN <<Param(v.t, Text(v.v))>>
    ELSE <<>>

RECURSIVE Flat(_)
Flat(seqs) == IF seqs = <<>> THEN <<>> ELSE Head(seqs) \o Flat(Tail(seqs))

Count(sql, frag) == Cardinality({i \in 1..Len(sql) : sql[i] = frag})

----------------------------------------------------------------------------
(* C24.  ConstScore and Boost. *)

\* The SQL of the child inside "paradedb.const_score(%s::real, <child>)" or
\* "paradedb.boost(%s, <child>)".
EmbeddedChild(sql) == SubSeq(InnerCall(sql), 4, Len(InnerCall(sql)) - 1)

\* The child of the compiled ConstScore or Boost.
WrappedChild == heap[Compiled.a.query]

\* C24 as stated, for a child that has a field and no match_op: a
\* ConstScore or a Boost binds its constant as the single parameter, and
\* its child is embedded as a function call that carries its field as first
\* argument, with no "<field> @@@" in front, whatever the dialect
\* configuration.
C24_ChildFieldQualified ==
    (/\ CompiledOk({"ConstScore", "Boost"})
     /\ WrappedChild.kind \in DOMAIN FuncOf
     /\ ~ WrappedChild.match_op) =>
        LET child == EmbeddedChild(last.sql)
            const == IF Compiled.kind = "Boost" THEN Compiled.a.factor ELSE Compiled.a.score
        IN  /\ last.params = <<const>>
            /\ IsCall(child)
            /\ child[2] = Literal(PStr(Str(WrappedChild.pfield)))

----------------------------------------------------------------------------
(* C25.  The children of TermSet and Boolean. *)

\* " <op> " for the operators a left-hand side is joined with.
LhsOps == {" " \o op \o " " : op \in {"@@@", "|||", "===", "###", "&&&"}}

\* The children of a TermSet or a Boolean, in the order they are compiled.
ChildIds(n) ==
    IF n.kind = "TermSet" THEN n.a.terms ELSE n.a.must \o n.a.must_not \o n.a.should

\* sql holds "<field> <op> " for the field of the object ch.
HasLhsOf(sql, ch) ==
    \E i \in 1..(Len(sql) - 1) : sql[i] = resolve_field_name(ch.pfield) /\ sql[i + 1] \in LhsOps

\* C25 as stated: no child of a TermSet or of a Boolean group, Search
\* included, appears with a "<field> <op>" left-hand side, whatever the
\* dialect; a TermSet is paradedb.term_set(terms := ARRAY[...]) and a child
\* that has a field and no match_op is embedded as its legacy call.
C25_ChildrenLegacyNoLhs ==
    CompiledOk({"TermSet", "Boolean"}) =>
        LET ids == ChildIds(Compiled)
            call == InnerCall(last.sql)
        IN  /\ \A k \in 1..Len(ids) : ~ HasLhsOf(last.sql, heap[ids[k]])
            /\ Compiled.kind = "TermSet" =>
                /\ SubSeq(call, 1, 2) = <<"paradedb.term_set(", "terms := ARRAY[">>
                /\ SubSeq(call, Len(call) - 1, Len(call)) = <<"]", ")">>
                /\ (ids # <<>> /\ heap[ids[1]].kind \in DOMAIN FuncOf /\ ~ heap[ids[1]].match_op)
                        => call[3] = "paradedb." \o FuncOf[heap[ids[1]].kind] \o "("

----------------------------------------------------------------------------
(* C26.  Resolved field references. *)

\* The kinds whose as_sql resolves the field reference first.
ResolvingKinds ==
    {"Match", "Exists", "Range", "RangeTerm", "Regex", "Term", "FuzzyTerm", "Phrase",
     "PhrasePrefix", "Snippet", "ParseWithField"}

\* The table or alias, and the column, a reference resolves to.
RefTable(ref) ==
    IF ref.tag = "F" THEN resolve_f_model_and_field(ref.name)[3]
    ELSE IF ref.model # "" THEN Models[ref.model].db_table ELSE ref.table
RefColumn(ref) == IF ref.tag = "F" THEN resolve_f_model_and_field(ref.name)[2] ELSE ref.name

\* C26 as stated: a compile of a node whose field is an F() path or a
\* TableField emits the field as "<table-or-alias>.<column>", in the SQL or
\* as a parameter, and leaves the identity key
\* "<that table or alias>.<identity-key column>", the column never being
\* the searched column itself; a bare string field is left unchanged and
\* the identity key with it.
C26_ResolvedFieldQualified ==
    [][(/\ last' # last
        /\ last'.op = "compile"
        /\ last'.ok
        /\ heap[last'.call.id].kind \in ResolvingKinds) =>
            LET old == heap[last'.call.id]
                new == heap'[last'.call.id]
                ref == old.pfield
                qualified == RefTable(ref) \o "." \o RefColumn(ref)
            IN  /\ ref.tag \in {"F", "TableField"} =>
                    /\ \/ Has(last'.sql, qualified)
                       \/ \E i \in 1..Len(last'.params) : last'.params[i] = PStr(qualified)
                    /\ new.key_field.tag = "KeyField"
                    /\ new.key_field.table = RefTable(ref)
                    /\ new.key_field.primary_key_field # RefColumn(ref)
                /\ ref.tag = "str" =>
                    /\ new.pfield = ref
                    /\ new.key_field = old.key_field]_vars

----------------------------------------------------------------------------
(* C27.  postgres_array. *)

\* The characters of a string element with every backslash and every quote
\* doubled.
EscapedChars(chars) ==
    Flat([i \in 1..Len(chars) |->
            IF chars[i] \in {"\\", "'"} THEN <<chars[i], chars[i]>> ELSE <<chars[i]>>])

\* The characters an element is encoded as.
EncodedElement(v) ==
    CASE v.t = "none" -> <<"NULL">>
      [] v.t = "str" -> <<"'">> \o EscapedChars(v.v) \o <<"'">>
      [] OTHER -> <<v.v>>

\* C27: postgres_array gives "ARRAY[e1, ..., eN]" with the elements in
\* input order, a string in single quotes with every backslash and every
\* quote doubled, None as NULL and any other scalar as its text; and the
\* literal of a string element, read from behind its opening quote, ends
\* at the element's own closing quote whatever follows it.
C27_ArrayLiteral ==
    last.op = "postgres_array" =>
        LET items == last.call.items
        IN  /\ last.sql = <<Text(<<"ARRAY[">>
                                 \o Join([i \in 1..Len(items) |-> EncodedElement(items[i])], ", ")
                                 \o <<"]">>)>>
            /\ \A i \in 1..Len(items) :
                    items[i].t = "str" =>
                        LiteralEnd(EscapedChars(items[i].v) \o <<"'", ", ", "'", "x", "'", "]">>)
                            = Len(EscapedChars(items[i].v)) + 1

\* C27 witness: the array of the string quote-backslash and None.
C27_Witness ==
    /\ last.op = "postgres_array"
    /\ last.call.items = <<PyS(<<"'", "\\">>), PyNone>>
    /\ last.sql = <<"ARRAY['''\\\\', NULL]">>

\* The latest call constructed a field configuration; the configuration
\* asked for and the keys and values of its json.
FieldConfigured == last.op = "field_config"
AskedConfig == last.call.config
TextOrJson == AskedConfig.cls \in {"text", "json"}
JsonHas(k) == \E i \in 1..Len(last.json.v) : last.json.v[i].k = <<k>>
JsonAt(k) == last.json.v[CHOOSE i \in 1..Len(last.json.v) : last.json.v[i].k = <<k>>].v
RecordModes == {<<"position">>, <<"freq">>, <<"basic">>}
Normalizers == {<<"raw">>, <<"lowercase">>}

RegisteredOp ==
    [pdb_search |-> "@@@", match_v2 |-> "|||", match_v2_conjunction |-> "&&&",
     phrase_v2 |-> "###", term_v2 |-> "==="]

\* The latest call compiled a search-family lookup.
SearchLookedUp == last.op = "lookup" /\ last.call.cls.expr_class = "Search"

\* C29: a search-family lookup that emits SQL emits "<field> <op>  %s" with
\* the operator of its registration and the query text as the parameter,
\* whatever op the right-hand value's keywords carry; and after every
\* translate call, failed or not, the registration's keyword overrides are
\* the operator it was registered with.
C29_RegisteredOperator ==
    SearchLookedUp =>
        /\ last.ok =>
            /\ Len(last.sql) = 4
            /\ last.sql[2] = " " \o RegisteredOp[last.call.cls.lookup_name] \o " "
            /\ last.sql[4] = PH
            /\ last.params = <<PStr("shoes")>>
        /\ last.extra = [op |-> RegisteredOp[last.call.cls.lookup_name]]

\* C29 witness: a lookup compiled from a LookupParameter whose keywords
\* were written with another op than the lookup's, after which the
\* LookupParameter holds the lookup's op.
C29_Witness ==
    /\ SearchLookedUp /\ last.ok
    /\ last.call.rhs.t = "bag"
    /\ "op" \in DOMAIN bags[last.call.rhs.id].given
    /\ bags[last.call.rhs.id].given.op # RegisteredOp[last.call.cls.lookup_name]
    /\ bags[last.call.rhs.id].kwargs.op = RegisteredOp[last.call.cls.lookup_name]

\* The fragments of emitted text, other than the placeholder itself, that
\* hold the text %s once: the range term 50%s with its cast, the array of
\* the phrase 50%s, and the literal of the pattern 50%s.
SplicedPercent == {"50%s::integer", "ARRAY['50%s']", "'50%s'"}

\* The number of times %s occurs in the emitted text.
Placeholders(sql) == Cardinality({i \in 1..Len(sql) : sql[i] = PH \/ sql[i] \in SplicedPercent})

\* C30 as stated: the SQL text a compile returns holds as many %s as the
\* parameter list has entries, also when a range term, an array element or
\* the composed SQL of a child holds the text %s.
C30_PlaceholdersMatchParams ==
    (last.op = "compile" /\ last.ok) => Placeholders(last.sql) = Len(last.params)

====
